---- MODULE Spec2Model ----
(***************************************************************************)
(* A state-machine model of the operation parser of                        *)
(* mlir/lib/AsmParser/Parser.cpp: the SSA name scopes, the block registry, *)
(* the operation / region / block parser (as a pushdown machine whose      *)
(* stack replaces the recursive descent), the deferred locations and       *)
(* finalize.  The input text is abstracted to the constructs the parser    *)
(* consumes; every token gets the next source offset as its location.      *)
(***************************************************************************)
EXTENDS Integers, Sequences, FiniteSets, TLC

\* ---------------------------------------------------------------- bounds
\* Length of the input, in tokens whose location the parser keeps: value
\* names, block labels, location aliases, operation names and '{'.
MaxPos == 6
\* Nesting depth of regions.
MaxDepth == 2
\* The longest source buffer of the wrong-token specification.
MaxBuffer == 6
\* The longest list of tokens given to parseCommaSeparatedList.
MaxTokens == 4

\* ------------------------------------------------------------ input alphabet
Names == {"a", "b"}
Types == {"i32", "f32"}
Labels == {"bb1", "bb2"}
Aliases == {"L"}

VARIABLES
  status,                    \* "parsing", "failed", "succeeded", "destroyed"
  pos,                       \* source offset of the current token
  isolatedNameScopes,        \* Seq of IsolatedSSANameScope
  blocksByName,              \* Seq of [Labels -> BlockDefinition]
  forwardRef,                \* Seq of sets of [block, loc]
  forwardRefPlaceholders,    \* set of [value, loc]
  forwardRefOps,             \* set of placeholder operations (by result value)
  deferredLocsReferences,    \* Seq of DeferredLocInfo
  attributeAliasDefinitions, \* [Aliases -> {"none", "loc", "attr"}]
  vals,                      \* the Values created so far
  ops,                       \* the Operations created so far
  blocks,                    \* the Blocks created so far
  regions,                   \* the Regions created so far
  insertBlock,               \* opBuilder's insertion point (a block, at its end)
  stack,                     \* the parse functions in progress, innermost last
  diags,                     \* the diagnostics emitted, in order
  destOps,                   \* the operations of the caller's top-level block
  calls,                     \* the calls to finalize, the verifier and asmState
  freed,                     \* the operations, blocks and values deleted
  dropped,                   \* the uses removed by dropAllUses
  dangling,                  \* the uses that were left of a node when deleted
  grammar,                   \* the part of the grammar the input text uses
  buffer,                    \* the characters of the source buffer
  curToken,                  \* the current token: its kind and its offset
  listResult                 \* what parseCommaSeparatedList has returned

vars == <<status, pos, isolatedNameScopes, blocksByName, forwardRef,
          forwardRefPlaceholders, forwardRefOps, deferredLocsReferences,
          attributeAliasDefinitions, vals, ops, blocks, regions, insertBlock,
          stack, diags, destOps, calls, freed, dropped, dangling, grammar,
          buffer, curToken, listResult>>

\* The parser's state as one record, so that the parse functions are operators
\* from state to state.
Cur ==
  [status |-> status, pos |-> pos, isolatedNameScopes |-> isolatedNameScopes,
   blocksByName |-> blocksByName, forwardRef |-> forwardRef,
   forwardRefPlaceholders |-> forwardRefPlaceholders,
   forwardRefOps |-> forwardRefOps,
   deferredLocsReferences |-> deferredLocsReferences,
   attributeAliasDefinitions |-> attributeAliasDefinitions,
   vals |-> vals, ops |-> ops, blocks |-> blocks, regions |-> regions,
   insertBlock |-> insertBlock, stack |-> stack, diags |-> diags,
   destOps |-> destOps, calls |-> calls, freed |-> freed, dropped |-> dropped,
   dangling |-> dangling]

Commit(s) ==
  /\ status' = s.status
  /\ pos' = s.pos
  /\ isolatedNameScopes' = s.isolatedNameScopes
  /\ blocksByName' = s.blocksByName
  /\ forwardRef' = s.forwardRef
  /\ forwardRefPlaceholders' = s.forwardRefPlaceholders
  /\ forwardRefOps' = s.forwardRefOps
  /\ deferredLocsReferences' = s.deferredLocsReferences
  /\ attributeAliasDefinitions' = s.attributeAliasDefinitions
  /\ vals' = s.vals
  /\ ops' = s.ops
  /\ blocks' = s.blocks
  /\ regions' = s.regions
  /\ insertBlock' = s.insertBlock
  /\ stack' = s.stack
  /\ diags' = s.diags
  /\ destOps' = s.destOps
  /\ calls' = s.calls
  /\ freed' = s.freed
  /\ dropped' = s.dropped
  /\ dangling' = s.dangling
  /\ UNCHANGED <<grammar, buffer, curToken, listResult>>

\* ------------------------------------------------------------------ helpers
Range(f) == {f[i] : i \in DOMAIN f}

RECURSIVE SumSeq(_)
SumSeq(q) == IF q = <<>> THEN 0 ELSE Head(q) + SumSeq(Tail(q))

\* llvm::array_pod_sort on source pointers: ascending order.
RECURSIVE array_pod_sort(_)
array_pod_sort(q) ==
  IF q = <<>> THEN <<>>
  ELSE LET m == CHOOSE x \in Range(q) : \A y \in Range(q) : x <= y
           i == CHOOSE j \in DOMAIN q : q[j] = m
       IN <<m>> \o array_pod_sort([j \in 1..(Len(q) - 1) |-> IF j < i THEN q[j] ELSE q[j + 1]])

\* The orders in which a DenseMap with the given keys may be iterated.
Orderings(S) ==
  {q \in [1..Cardinality(S) -> S] : \A i, j \in 1..Cardinality(S) : i # j => q[i] # q[j]}

\* Locations: a place in the file, the OpaqueLoc marker of a deferred alias,
\* or the location attribute an alias stands for.
FileLoc(n) == [kind |-> "file", n |-> n, id |-> ""]
OpaqueLoc(i) == [kind |-> "opaque", n |-> i, id |-> ""]
AliasLoc(id) == [kind |-> "alias", n |-> 0, id |-> id]

\* ---------------------------------------------------------------- diagnostics
emitError(s, loc, message, note) ==
  [s EXCEPT !.diags = Append(@, [loc |-> loc, msg |-> message, note |-> note]),
            !.status = "failed"]

OK(s) == s.status = "parsing"

\* ----------------------------------------------------------- SSA name scopes
NullDef == [value |-> 0, loc |-> 0]

Top(s) == Len(s.isolatedNameScopes)

getSSAValueEntry(s, name) == s.isolatedNameScopes[Top(s)].values[name]

setSSAValueEntry(s, name, entries) ==
  [s EXCEPT !.isolatedNameScopes[Top(s)].values[name] = entries]

resize(entries, n) ==
  IF Len(entries) >= n THEN SubSeq(entries, 1, n)
  ELSE entries \o [i \in 1..(n - Len(entries)) |-> NullDef]

isForwardRefPlaceholder(s, value) ==
  \E e \in s.forwardRefPlaceholders : e.value = value

recordDefinition(s, def) ==
  LET t == Top(s)
      d == Len(s.isolatedNameScopes[t].definitionsPerScope)
  IN [s EXCEPT !.isolatedNameScopes[t].definitionsPerScope[d] = @ \cup {def}]

replaceAllUsesWith(s, old, new) ==
  [s EXCEPT !.ops = [o \in DOMAIN s.ops |->
      [s.ops[o] EXCEPT !.operands =
          [k \in DOMAIN s.ops[o].operands |->
              IF s.ops[o].operands[k] = old THEN new ELSE s.ops[o].operands[k]]]]]

\* createForwardRefPlaceholder leaving the value out of forwardRefPlaceholders.
createForwardRefPlaceholder_notRemembered(s, loc, type) ==
  LET v == Len(s.vals) + 1
  IN [s EXCEPT !.vals = Append(@, [type |-> type, kind |-> "placeholder",
                                    loc |-> FileLoc(loc)]),
               !.forwardRefOps = @ \cup {v}]

\* createForwardRefPlaceholder leaving the operation out of forwardRefOps.
createForwardRefPlaceholder_notOwned(s, loc, type) ==
  LET v == Len(s.vals) + 1
  IN [s EXCEPT !.vals = Append(@, [type |-> type, kind |-> "placeholder",
                                    loc |-> FileLoc(loc)]),
               !.forwardRefPlaceholders = @ \cup {[value |-> v, loc |-> loc]}]

createForwardRefPlaceholder(s, loc, type) ==
  LET v == Len(s.vals) + 1
  IN [s EXCEPT !.vals = Append(@, [type |-> type, kind |-> "placeholder",
                                    loc |-> FileLoc(loc)]),
               !.forwardRefPlaceholders = @ \cup {[value |-> v, loc |-> loc]},
               !.forwardRefOps = @ \cup {v}]

\* addDefinition without the check for an existing definition.
addDefinition_rebinds(s, useInfo, value) ==
  LET entries == resize(getSSAValueEntry(s, useInfo.name),
                        IF Len(getSSAValueEntry(s, useInfo.name)) <= useInfo.number
                        THEN useInfo.number + 1
                        ELSE Len(getSSAValueEntry(s, useInfo.name)))
      bound == [entries EXCEPT ![useInfo.number + 1] =
                   [value |-> value, loc |-> useInfo.location]]
  IN recordDefinition(setSSAValueEntry(s, useInfo.name, bound), useInfo.name)

\* addDefinition leaving the uses of the placeholder as they are.
addDefinition_keepsUses(s, useInfo, value) ==
  LET entries == resize(getSSAValueEntry(s, useInfo.name),
                        IF Len(getSSAValueEntry(s, useInfo.name)) <= useInfo.number
                        THEN useInfo.number + 1
                        ELSE Len(getSSAValueEntry(s, useInfo.name)))
      s1 == setSSAValueEntry(s, useInfo.name, entries)
      existing == entries[useInfo.number + 1].value
      prior == entries[useInfo.number + 1].loc
      bound == [entries EXCEPT ![useInfo.number + 1] =
                   [value |-> value, loc |-> useInfo.location]]
  IN IF existing # 0 /\ ~isForwardRefPlaceholder(s, existing)
     THEN emitError(s1, useInfo.location, "redefinition of SSA value", prior)
     ELSE IF existing # 0 /\ s.vals[existing].type # s.vals[value].type
     THEN emitError(s1, useInfo.location, "definition of SSA value has type", prior)
     ELSE LET s2 == IF existing # 0
                    THEN [s1 EXCEPT !.forwardRefPlaceholders =
                                       {e \in @ : e.value # existing}]
                    ELSE s1
          IN recordDefinition(setSSAValueEntry(s2, useInfo.name, bound),
                              useInfo.name)

addDefinition(s, useInfo, value) ==
  LET entries == resize(getSSAValueEntry(s, useInfo.name),
                        IF Len(getSSAValueEntry(s, useInfo.name)) <= useInfo.number
                        THEN useInfo.number + 1
                        ELSE Len(getSSAValueEntry(s, useInfo.name)))
      s1 == setSSAValueEntry(s, useInfo.name, entries)
      existing == entries[useInfo.number + 1].value
      prior == entries[useInfo.number + 1].loc
      bound == [entries EXCEPT ![useInfo.number + 1] =
                   [value |-> value, loc |-> useInfo.location]]
  IN IF existing # 0 /\ ~isForwardRefPlaceholder(s, existing)
     THEN emitError(s1, useInfo.location, "redefinition of SSA value", prior)
     ELSE IF existing # 0 /\ s.vals[existing].type # s.vals[value].type
     THEN emitError(s1, useInfo.location, "definition of SSA value has type", prior)
     ELSE LET s2 == IF existing # 0
                    THEN [replaceAllUsesWith(s1, existing, value) EXCEPT
                            !.forwardRefPlaceholders =
                               {e \in @ : e.value # existing}]
                    ELSE s1
          IN recordDefinition(setSSAValueEntry(s2, useInfo.name, bound),
                              useInfo.name)

\* resolveSSAUse returning the value a name is bound to whatever its type.
resolveSSAUse_ignoresType(s, useInfo, type) ==
  LET entries == getSSAValueEntry(s, useInfo.name)
  IN IF useInfo.number < Len(entries) /\ entries[useInfo.number + 1].value # 0
     THEN [s |-> s, value |-> entries[useInfo.number + 1].value]
     ELSE LET grown == resize(entries, IF Len(entries) <= useInfo.number
                                       THEN useInfo.number + 1 ELSE Len(entries))
              s1 == setSSAValueEntry(s, useInfo.name, grown)
          IN IF grown[1].value # 0 /\ ~isForwardRefPlaceholder(s, grown[1].value)
             THEN [s |-> emitError(s1, useInfo.location,
                                   "reference to invalid result number", 0),
                   value |-> 0]
             ELSE LET s2 == createForwardRefPlaceholder(s1, useInfo.location, type)
                      result == Len(s2.vals)
                  IN [s |-> setSSAValueEntry(s2, useInfo.name,
                               [grown EXCEPT ![useInfo.number + 1] =
                                   [value |-> result, loc |-> useInfo.location]]),
                      value |-> result]

\* resolveSSAUse taking every result number that is not bound for a forward
\* reference.
resolveSSAUse_anyResultNumber(s, useInfo, type) ==
  LET entries == getSSAValueEntry(s, useInfo.name)
  IN IF useInfo.number < Len(entries) /\ entries[useInfo.number + 1].value # 0
     THEN LET result == entries[useInfo.number + 1].value
          IN IF s.vals[result].type = type
             THEN [s |-> s, value |-> result]
             ELSE [s |-> emitError(s, useInfo.location,
                                   "use of value expects different type than prior uses",
                                   entries[useInfo.number + 1].loc),
                   value |-> 0]
     ELSE LET grown == resize(entries, IF Len(entries) <= useInfo.number
                                       THEN useInfo.number + 1 ELSE Len(entries))
              s1 == setSSAValueEntry(s, useInfo.name, grown)
              s2 == createForwardRefPlaceholder(s1, useInfo.location, type)
              result == Len(s2.vals)
          IN [s |-> setSSAValueEntry(s2, useInfo.name,
                       [grown EXCEPT ![useInfo.number + 1] =
                           [value |-> result, loc |-> useInfo.location]]),
              value |-> result]

\* Returns the state and the value (0 on failure).
resolveSSAUse(s, useInfo, type) ==
  LET entries == getSSAValueEntry(s, useInfo.name)
  IN IF useInfo.number < Len(entries) /\ entries[useInfo.number + 1].value # 0
     THEN LET result == entries[useInfo.number + 1].value
          IN IF s.vals[result].type = type
             THEN [s |-> s, value |-> result]
             ELSE [s |-> emitError(s, useInfo.location,
                                   "use of value expects different type than prior uses",
                                   entries[useInfo.number + 1].loc),
                   value |-> 0]
     ELSE LET grown == resize(entries, IF Len(entries) <= useInfo.number
                                       THEN useInfo.number + 1 ELSE Len(entries))
              s1 == setSSAValueEntry(s, useInfo.name, grown)
          IN IF grown[1].value # 0 /\ ~isForwardRefPlaceholder(s, grown[1].value)
             THEN [s |-> emitError(s1, useInfo.location,
                                   "reference to invalid result number", 0),
                   value |-> 0]
             ELSE LET s2 == createForwardRefPlaceholder(s1, useInfo.location, type)
                      result == Len(s2.vals)
                  IN [s |-> setSSAValueEntry(s2, useInfo.name,
                               [grown EXCEPT ![useInfo.number + 1] =
                                   [value |-> result, loc |-> useInfo.location]]),
                      value |-> result]

\* ------------------------------------------------------------ block registry
NullBlockDef == [block |-> 0, loc |-> 0]

getBlockInfoByName(s, name) == s.blocksByName[Len(s.blocksByName)][name]

setBlockInfoByName(s, name, def) ==
  [s EXCEPT !.blocksByName[Len(s.blocksByName)][name] = def]

\* DenseMap::try_emplace: the first location recorded for a block is kept.
insertForwardRef(s, block, loc) ==
  IF \E e \in s.forwardRef[Len(s.forwardRef)] : e.block = block THEN s
  ELSE [s EXCEPT !.forwardRef[Len(s.forwardRef)] =
                     @ \cup {[block |-> block, loc |-> loc]}]

isForwardRef(s, block) ==
  \E e \in s.forwardRef[Len(s.forwardRef)] : e.block = block

eraseForwardRef(s, block) ==
  [s EXCEPT !.forwardRef[Len(s.forwardRef)] = {e \in @ : e.block # block}]

newBlock(s) ==
  [s EXCEPT !.blocks = Append(@, [args |-> <<>>, region |-> 0])]

\* getBlockNamed creating a block at every reference.
getBlockNamed_alwaysNew(s, name, loc) ==
  LET s1 == newBlock(s)
      b == Len(s1.blocks)
  IN [s |-> insertForwardRef(
              setBlockInfoByName(s1, name, [block |-> b, loc |-> loc]), b, loc),
      block |-> b]

\* Returns the state and the block.
getBlockNamed(s, name, loc) ==
  LET blockDef == getBlockInfoByName(s, name)
  IN IF blockDef.block = 0
     THEN LET s1 == newBlock(s)
              b == Len(s1.blocks)
          IN [s |-> insertForwardRef(
                      setBlockInfoByName(s1, name, [block |-> b, loc |-> loc]),
                      b, loc),
              block |-> b]
     ELSE [s |-> s, block |-> blockDef.block]

\* Region::push_back
regionPushBack(s, region, block) ==
  [s EXCEPT !.regions[region].blocks = Append(@, block),
            !.blocks[block].region = region]

\* The body region of the top-level module operation, and its only block.
TopRegion == 1
TopBlock == 1

\* pushSSANameScope taking no scope for isolated.
pushSSANameScope_neverIsolated(s, isIsolated) ==
  LET s1 == [s EXCEPT !.blocksByName = Append(@, [l \in Labels |-> NullBlockDef]),
                      !.forwardRef = Append(@, {})]
  IN [s1 EXCEPT !.isolatedNameScopes[Top(s1)].definitionsPerScope = Append(@, {})]

\* pushSSANameScope keeping the labels of the enclosing scope in a nested
\* scope that is not isolated.
pushSSANameScope_keepsLabels(s, isIsolated) ==
  LET s1 == [s EXCEPT !.blocksByName =
                        Append(@, IF isIsolated THEN [l \in Labels |-> NullBlockDef]
                                  ELSE @[Len(@)]),
                      !.forwardRef = Append(@, {})]
      s2 == IF isIsolated
            THEN [s1 EXCEPT !.isolatedNameScopes =
                     Append(@, [values |-> [n \in Names |-> <<>>],
                                definitionsPerScope |-> <<>>])]
            ELSE s1
  IN [s2 EXCEPT !.isolatedNameScopes[Top(s2)].definitionsPerScope = Append(@, {})]

pushSSANameScope(s, isIsolated) ==
  LET s1 == [s EXCEPT !.blocksByName = Append(@, [l \in Labels |-> NullBlockDef]),
                      !.forwardRef = Append(@, {})]
      s2 == IF isIsolated
            THEN [s1 EXCEPT !.isolatedNameScopes =
                     Append(@, [values |-> [n \in Names |-> <<>>],
                                definitionsPerScope |-> <<>>])]
            ELSE s1
  IN [s2 EXCEPT !.isolatedNameScopes[Top(s2)].definitionsPerScope = Append(@, {})]

RECURSIVE pushBackAll(_, _, _)
pushBackAll(s, region, order) ==
  IF order = <<>> THEN s
  ELSE pushBackAll(regionPushBack(s, region, Head(order).block), region, Tail(order))

RECURSIVE emitAll(_, _, _)
emitAll(s, locs, message) ==
  IF locs = <<>> THEN s
  ELSE emitAll(emitError(s, Head(locs), message, 0), Tail(locs), message)

\* popSSANameScope without the check of the forward references.
popSSANameScope_ignoresForwardRef(s, order) ==
  LET s1 == [s EXCEPT !.forwardRef = SubSeq(@, 1, Len(@) - 1)]
      t == Top(s1)
      currentNameScope == s1.isolatedNameScopes[t]
      d == Len(currentNameScope.definitionsPerScope)
      s2 == IF d = 1
            THEN [s1 EXCEPT !.isolatedNameScopes = SubSeq(@, 1, t - 1)]
            ELSE [s1 EXCEPT !.isolatedNameScopes[t] =
                    [values |-> [n \in Names |->
                         IF n \in currentNameScope.definitionsPerScope[d]
                         THEN <<>> ELSE currentNameScope.values[n]],
                     definitionsPerScope |->
                         SubSeq(currentNameScope.definitionsPerScope, 1, d - 1)]]
  IN [s2 EXCEPT !.blocksByName = SubSeq(@, 1, Len(@) - 1)]

\* popSSANameScope leaving the forward-declared blocks out of every region.
popSSANameScope_leavesOrphans(s, order) ==
  LET forwardRefInCurrentScope == s.forwardRef[Len(s.forwardRef)]
      s1 == [s EXCEPT !.forwardRef = SubSeq(@, 1, Len(@) - 1)]
  IN IF forwardRefInCurrentScope # {}
     THEN emitAll(s1, array_pod_sort([i \in DOMAIN order |-> order[i].loc]),
                  "reference to an undefined block")
     ELSE popSSANameScope_ignoresForwardRef(s, order)

\* order: the order in which the DenseMap of this scope's forward references
\* is iterated.
\* popSSANameScope dropping, with an isolated scope, the placeholders that
\* are bound in it.
popSSANameScope_forgetsPlaceholders(s, order) ==
  LET forwardRefInCurrentScope == s.forwardRef[Len(s.forwardRef)]
      s1 == [s EXCEPT !.forwardRef = SubSeq(@, 1, Len(@) - 1)]
  IN IF forwardRefInCurrentScope # {}
     THEN emitAll(pushBackAll(s1, TopRegion, order),
                  array_pod_sort([i \in DOMAIN order |-> order[i].loc]),
                  "reference to an undefined block")
     ELSE LET t == Top(s1)
              currentNameScope == s1.isolatedNameScopes[t]
              d == Len(currentNameScope.definitionsPerScope)
              bound == UNION {{e.value : e \in Range(currentNameScope.values[n])} :
                                n \in Names}
              s2 == IF d = 1
                    THEN [s1 EXCEPT !.isolatedNameScopes = SubSeq(@, 1, t - 1),
                                    !.forwardRefPlaceholders =
                                       {pl \in @ : pl.value \notin bound}]
                    ELSE [s1 EXCEPT !.isolatedNameScopes[t] =
                            [values |-> [n \in Names |->
                                 IF n \in currentNameScope.definitionsPerScope[d]
                                 THEN <<>> ELSE currentNameScope.values[n]],
                             definitionsPerScope |->
                                 SubSeq(currentNameScope.definitionsPerScope, 1, d - 1)]]
          IN [s2 EXCEPT !.blocksByName = SubSeq(@, 1, Len(@) - 1)]

popSSANameScope(s, order) ==
  LET forwardRefInCurrentScope == s.forwardRef[Len(s.forwardRef)]
      s1 == [s EXCEPT !.forwardRef = SubSeq(@, 1, Len(@) - 1)]
  IN IF forwardRefInCurrentScope # {}
     THEN emitAll(pushBackAll(s1, TopRegion, order),
                  array_pod_sort([i \in DOMAIN order |-> order[i].loc]),
                  "reference to an undefined block")
     ELSE LET t == Top(s1)
              currentNameScope == s1.isolatedNameScopes[t]
              d == Len(currentNameScope.definitionsPerScope)
              s2 == IF d = 1
                    THEN [s1 EXCEPT !.isolatedNameScopes = SubSeq(@, 1, t - 1)]
                    ELSE [s1 EXCEPT !.isolatedNameScopes[t] =
                            [values |-> [n \in Names |->
                                 IF n \in currentNameScope.definitionsPerScope[d]
                                 THEN <<>> ELSE currentNameScope.values[n]],
                             definitionsPerScope |->
                                 SubSeq(currentNameScope.definitionsPerScope, 1, d - 1)]]
          IN [s2 EXCEPT !.blocksByName = SubSeq(@, 1, Len(@) - 1)]

\* --------------------------------------------------------- trailing location
\* Returns the state and the location parsed.
parseLocationAlias(s, identifier, tokLoc) ==
  LET attr == s.attributeAliasDefinitions[identifier]
  IN IF attr = "loc" THEN [s |-> s, loc |-> AliasLoc(identifier)]
     ELSE IF attr = "attr"
     THEN [s |-> emitError(s, tokLoc, "expected location, but found", 0),
           loc |-> FileLoc(0)]
     ELSE [s |-> [s EXCEPT !.deferredLocsReferences =
                      Append(@, [loc |-> tokLoc, identifier |-> identifier])],
           loc |-> OpaqueLoc(Len(s.deferredLocsReferences) + 1)]

\* spec is "none" (no trailing loc) or the alias of loc(#alias); old is the
\* location the operation or argument has so far.
parseTrailingLocationSpecifier(s, spec, old) ==
  IF spec = "none" THEN [s |-> s, loc |-> old]
  ELSE LET r == parseLocationAlias(s, spec, s.pos)
       IN [s |-> [r.s EXCEPT !.pos = @ + 1], loc |-> r.loc]

\* ------------------------------------------------------------------ operations
PushFrame(s, f) == [s EXCEPT !.stack = Append(@, f)]
PopFrame(s) == [s EXCEPT !.stack = SubSeq(@, 1, Len(@) - 1)]
TopFrame(s) == s.stack[Len(s.stack)]

RECURSIVE parseSuccessors(_, _, _)
\* Returns the state and the destinations.
parseSuccessors(s, labels, destinations) ==
  IF labels = <<>> THEN [s |-> s, destinations |-> destinations]
  ELSE LET r == getBlockNamed(s, Head(labels), s.pos)
       IN parseSuccessors([r.s EXCEPT !.pos = @ + 1], Tail(labels),
                          Append(destinations, r.block))

\* Operation::create through opBuilder: the operation is inserted at the
\* insertion point and takes the regions of the OperationState.
createOperation(s, loc, operands, types, successors, regs) ==
  LET op == Len(s.ops) + 1
      first == Len(s.vals)
      s1 == [s EXCEPT
               !.vals = @ \o [i \in 1..Len(types) |->
                                [type |-> types[i], kind |-> "result",
                                 loc |-> FileLoc(loc)]],
               !.ops = Append(@, [operands |-> operands,
                                  results |-> [i \in 1..Len(types) |-> first + i],
                                  successors |-> successors,
                                  regions |-> regs,
                                  loc |-> FileLoc(loc),
                                  block |-> s.insertBlock])]
  IN [s1 EXCEPT !.regions = [r \in DOMAIN s1.regions |->
                               IF r \in Range(regs)
                               THEN [s1.regions[r] EXCEPT !.op = op]
                               ELSE s1.regions[r]]]

\* result.name.mightHaveTrait<OpTrait::IsTerminator>(): the operation named
\* is statically known to be a terminator.
mightHaveTrait(in) == in.terminator

\* beginOperation resolving the first operand name as soon as the operand
\* list is parsed.
beginOperation_resolvesOperands(s, in) ==
  LET loc == s.pos
      nRes == Len(in.resultIDs)
      resultIDs == [i \in 1..nRes |->
                      [name |-> in.resultIDs[i].name, num |-> in.resultIDs[i].num,
                       loc |-> loc + i - 1]]
      nameLoc == loc + nRes
      opInfo == [j \in 1..Len(in.operands) |->
                   [name |-> in.operands[j].name, number |-> in.operands[j].number,
                    location |-> nameLoc + j]]
      s1 == [s EXCEPT !.pos = nameLoc + Len(in.operands) + 1]
      r == IF opInfo = <<>> THEN [s |-> s1]
           ELSE resolveSSAUse(s1, opInfo[1], "i32")
      frame == [kind |-> "op", loc |-> loc, srcLocation |-> nameLoc,
                resultIDs |-> resultIDs, opInfo |-> opInfo,
                successors |-> <<>>, regions |-> <<>>, custom |-> FALSE]
  IN PushFrame(r.s, frame)

\* beginOperation taking a successor list on every operation.
beginOperation_successorsAnywhere(s, in) ==
  LET loc == s.pos
      nRes == Len(in.resultIDs)
      resultIDs == [i \in 1..nRes |->
                      [name |-> in.resultIDs[i].name, num |-> in.resultIDs[i].num,
                       loc |-> loc + i - 1]]
      bad == {i \in 1..nRes : in.resultIDs[i].num < 1}
      nameLoc == loc + nRes
      opInfo == [j \in 1..Len(in.operands) |->
                   [name |-> in.operands[j].name, number |-> in.operands[j].number,
                    location |-> nameLoc + j]]
      s1 == [s EXCEPT !.pos = nameLoc + Len(in.operands) + 1]
      frame == [kind |-> "op", loc |-> loc, srcLocation |-> nameLoc,
                resultIDs |-> resultIDs, opInfo |-> opInfo,
                successors |-> <<>>, regions |-> <<>>, custom |-> FALSE]
  IN IF bad # {}
     THEN LET i == CHOOSE k \in bad : \A m \in bad : k <= m
          IN emitError([s EXCEPT !.pos = loc + i - 1], loc + i - 1,
                       "expected named operation to have at least 1 result", 0)
     ELSE IF in.successors = <<>> THEN PushFrame(s1, frame)
     ELSE LET r == parseSuccessors(s1, in.successors, <<>>)
          IN PushFrame(r.s, [frame EXCEPT !.successors = r.destinations])

\* The first part of parseOperation and parseGenericOperationAfterOpName:
\* the result ids, the operation name, the operand list and the successors.
beginOperation(s, in) ==
  LET loc == s.pos
      nRes == Len(in.resultIDs)
      resultIDs == [i \in 1..nRes |->
                      [name |-> in.resultIDs[i].name, num |-> in.resultIDs[i].num,
                       loc |-> loc + i - 1]]
      bad == {i \in 1..nRes : in.resultIDs[i].num < 1}
      nameLoc == loc + nRes
      opInfo == [j \in 1..Len(in.operands) |->
                   [name |-> in.operands[j].name, number |-> in.operands[j].number,
                    location |-> nameLoc + j]]
      s1 == [s EXCEPT !.pos = nameLoc + Len(in.operands) + 1]
      frame == [kind |-> "op", loc |-> loc, srcLocation |-> nameLoc,
                resultIDs |-> resultIDs, opInfo |-> opInfo,
                successors |-> <<>>, regions |-> <<>>, custom |-> FALSE]
  IN IF bad # {}
     THEN LET i == CHOOSE k \in bad : \A m \in bad : k <= m
          IN emitError([s EXCEPT !.pos = loc + i - 1], loc + i - 1,
                       "expected named operation to have at least 1 result", 0)
     ELSE IF in.successors = <<>> THEN PushFrame(s1, frame)
     ELSE IF ~mightHaveTrait(in)
     THEN emitError(PushFrame(s1, frame), s1.pos, "successors in non-terminator", 0)
     ELSE LET r == parseSuccessors(s1, in.successors, <<>>)
          IN PushFrame(r.s, [frame EXCEPT !.successors = r.destinations])

RECURSIVE resolveOperands(_, _, _, _)
\* Returns the state and the operands resolved so far.
resolveOperands(s, opInfo, operandTypes, operands) ==
  IF opInfo = <<>> \/ ~OK(s) THEN [s |-> s, operands |-> operands]
  ELSE LET r == resolveSSAUse(s, Head(opInfo), Head(operandTypes))
       IN resolveOperands(r.s, Tail(opInfo), Tail(operandTypes),
                          Append(operands, r.value))

\* The (name, number) pairs of a result-id list, in result order.
RECURSIVE resultNames(_)
resultNames(resultIDs) ==
  IF resultIDs = <<>> THEN <<>>
  ELSE [j \in 1..Head(resultIDs).num |->
          [name |-> Head(resultIDs).name, number |-> j - 1,
           location |-> Head(resultIDs).loc]]
       \o resultNames(Tail(resultIDs))

RECURSIVE addDefinitions(_, _, _, _)
addDefinitions(s, op, names, opResI) ==
  IF names = <<>> \/ ~OK(s) THEN s
  ELSE addDefinitions(addDefinition(s, Head(names), s.ops[op].results[opResI]),
                      op, Tail(names), opResI + 1)

numExpectedResults(resultIDs) ==
  SumSeq([i \in DOMAIN resultIDs |-> resultIDs[i].num])

\* getResultName never moving on to the numbering of the next group.
RECURSIVE getResultName_keepsNumber(_, _)
getResultName_keepsNumber(resultIDs, resultNo) ==
  IF resultIDs = <<>> THEN [name |-> "", number |-> -1]
  ELSE IF resultNo < Head(resultIDs).num
  THEN [name |-> Head(resultIDs).name, number |-> resultNo]
  ELSE getResultName_keepsNumber(Tail(resultIDs), resultNo)

\* CustomOpAsmParser::getResultName.  A name of the model is the identifier
\* after the '%' of the token's spelling, which is what drop_front() leaves;
\* ~0U, the invalid result number, is written -1 (all bits set).
RECURSIVE getResultName(_, _)
getResultName(resultIDs, resultNo) ==
  IF resultIDs = <<>> THEN [name |-> "", number |-> -1]
  ELSE IF resultNo < Head(resultIDs).num
  THEN [name |-> Head(resultIDs).name, number |-> resultNo]
  ELSE getResultName(Tail(resultIDs), resultNo - Head(resultIDs).num)

\* CustomOpAsmParser::getNumResults
RECURSIVE getNumResults(_)
getNumResults(resultIDs) ==
  IF resultIDs = <<>> THEN 0
  ELSE Head(resultIDs).num + getNumResults(Tail(resultIDs))

\* registerResults binding as many names as the operation has results.
registerResults_bindsPrefix(s, op, loc, resultIDs) ==
  LET names == resultNames(resultIDs)
      n == IF Len(names) <= Len(s.ops[op].results) THEN Len(names)
           ELSE Len(s.ops[op].results)
  IN addDefinitions(s, op, SubSeq(names, 1, n), 1)

\* The end of parseOperation once the operation exists: the result names.
registerResults(s, op, loc, resultIDs) ==
  IF resultIDs = <<>> THEN s
  ELSE IF Len(s.ops[op].results) = 0
  THEN emitError(s, loc, "cannot name an operation with no results", 0)
  ELSE IF numExpectedResults(resultIDs) # Len(s.ops[op].results)
  THEN emitError(s, loc, "operation defines results but was provided to bind", 0)
  ELSE addDefinitions(s, op, resultNames(resultIDs), 1)

\* "expected " << size << " operand type" << plural << " but had " << size
operandCountMessage(expected, actual) ==
  "expected " \o ToString(expected) \o " operand type"
  \o (IF expected = 1 THEN "" ELSE "s") \o " but had " \o ToString(actual)

\* endOperation resolving the operands that have a type before it compares
\* the counts.
endOperation_resolvesFirst(s, in) ==
  LET frame == TopFrame(s)
      typeLoc == s.pos
      k == IF Len(in.inputs) < Len(frame.opInfo) THEN Len(in.inputs)
           ELSE Len(frame.opInfo)
      s1 == IF Len(in.inputs) # Len(frame.opInfo)
            THEN resolveOperands(s, SubSeq(frame.opInfo, 1, k),
                                 SubSeq(in.inputs, 1, k), <<>>).s
            ELSE s
  IN IF Len(in.inputs) # Len(frame.opInfo)
     THEN emitError(s1, typeLoc, operandCountMessage(Len(frame.opInfo), Len(in.inputs)), 0)
     ELSE LET r == resolveOperands(s1, frame.opInfo, in.inputs, <<>>)
          IN IF ~OK(r.s) THEN r.s
             ELSE LET s2 == createOperation(PopFrame(r.s), frame.srcLocation, r.operands,
                                            in.results, frame.successors,
                                            frame.regions)
                      op == Len(s2.ops)
                      l == parseTrailingLocationSpecifier(s2, in.loc, s2.ops[op].loc)
                  IN IF ~OK(l.s) THEN l.s
                     ELSE registerResults([l.s EXCEPT !.ops[op].loc = l.loc],
                                          op, frame.loc, frame.resultIDs)

\* The rest of parseGenericOperationAfterOpName, parseGenericOperation and
\* parseOperation: the function type, the operands, the operation, its
\* trailing location and its result names.
endOperation(s, in) ==
  LET frame == TopFrame(s)
      typeLoc == s.pos
      s1 == s
  IN IF Len(in.inputs) # Len(frame.opInfo)
     THEN emitError(s1, typeLoc, operandCountMessage(Len(frame.opInfo), Len(in.inputs)), 0)
     ELSE LET r == resolveOperands(s1, frame.opInfo, in.inputs, <<>>)
          IN IF ~OK(r.s) THEN r.s
             ELSE LET s2 == createOperation(PopFrame(r.s), frame.srcLocation, r.operands,
                                            in.results, frame.successors,
                                            frame.regions)
                      op == Len(s2.ops)
                      l == parseTrailingLocationSpecifier(s2, in.loc, s2.ops[op].loc)
                  IN IF ~OK(l.s) THEN l.s
                     ELSE registerResults([l.s EXCEPT !.ops[op].loc = l.loc],
                                          op, frame.loc, frame.resultIDs)

\* parseOperation and parseCustomOperation up to the call of the parser of
\* the operation, and the operand names this parser parses first.
beginCustomOperation(s, in) ==
  LET s1 == beginOperation(s, [resultIDs |-> in.resultIDs, operands |-> in.operands,
                               successors |-> <<>>, terminator |-> FALSE])
  IN IF OK(s1) THEN [s1 EXCEPT !.stack[Len(s1.stack)].custom = TRUE] ELSE s1

\* parseCustomOperation creating the operation whenever the parser of the
\* operation returns success.
parseCustomOperation_ignoresEmittedError(s, callback, in) ==
  LET frame == TopFrame(s)
      r == resolveOperands(s, frame.opInfo, in.inputs, <<>>)
      s1 == IF callback.emitted
            THEN [r.s EXCEPT !.diags = Append(@, [loc |-> s.pos, note |-> 0,
                                                  msg |-> "custom op error"])]
            ELSE r.s
  IN IF ~OK(r.s) THEN r.s
     ELSE IF callback.returns = "failure" THEN [s1 EXCEPT !.status = "failed"]
     ELSE IF \E i, j \in DOMAIN callback.attributes :
                i # j /\ callback.attributes[i] = callback.attributes[j]
     THEN emitError(s1, frame.srcLocation,
                    "occurs more than once in the attribute list", 0)
     ELSE LET s2 == createOperation(PopFrame(s1), frame.srcLocation, r.operands,
                                    in.results, <<>>, frame.regions)
              op == Len(s2.ops)
              l == parseTrailingLocationSpecifier(s2, in.loc, s2.ops[op].loc)
          IN IF ~OK(l.s) THEN l.s
             ELSE registerResults([l.s EXCEPT !.ops[op].loc = l.loc],
                                  op, frame.loc, frame.resultIDs)

\* The rest of parseCustomOperation and of parseOperation once the parser
\* of the operation returns.  This parser has resolved the operands with
\* the types in.inputs; callback tells whether it emitted an error of its
\* own through the parser, what it returns and the attributes it added.
parseCustomOperation(s, callback, in) ==
  LET frame == TopFrame(s)
      r == resolveOperands(s, frame.opInfo, in.inputs, <<>>)
      s1 == IF callback.emitted
            THEN [r.s EXCEPT !.diags = Append(@, [loc |-> s.pos, note |-> 0,
                                                  msg |-> "custom op error"])]
            ELSE r.s
  IN IF ~OK(r.s) THEN r.s
     ELSE IF callback.returns = "failure" THEN [s1 EXCEPT !.status = "failed"]
     ELSE IF \E i, j \in DOMAIN callback.attributes :
                i # j /\ callback.attributes[i] = callback.attributes[j]
     THEN emitError(s1, frame.srcLocation,
                    "occurs more than once in the attribute list", 0)
     ELSE IF callback.emitted THEN [s1 EXCEPT !.status = "failed"]
     ELSE LET s2 == createOperation(PopFrame(s1), frame.srcLocation, r.operands,
                                    in.results, <<>>, frame.regions)
              op == Len(s2.ops)
              l == parseTrailingLocationSpecifier(s2, in.loc, s2.ops[op].loc)
          IN IF ~OK(l.s) THEN l.s
             ELSE registerResults([l.s EXCEPT !.ops[op].loc = l.loc],
                                  op, frame.loc, frame.resultIDs)

\* -------------------------------------------------------------------- blocks
\* Block::addArgument
addArgument(s, owner, type, loc) ==
  [s EXCEPT !.vals = Append(@, [type |-> type, kind |-> "arg", loc |-> loc]),
            !.blocks[owner].args = Append(@, Len(s.vals) + 1)]

RECURSIVE parseBlockArgs(_, _, _, _, _)
parseBlockArgs(s, owner, args, definingExistingArgs, nextArgument) ==
  IF args = <<>> \/ ~OK(s) THEN s
  ELSE LET a == Head(args)
           useInfo == [name |-> a.name, number |-> a.number, location |-> s.pos]
           s0 == [s EXCEPT !.pos = @ + 1]
       IN IF definingExistingArgs /\ nextArgument >= Len(s.blocks[owner].args)
          THEN emitError(s0, s0.pos, "too many arguments specified in argument list", 0)
          ELSE IF definingExistingArgs
                  /\ s.vals[s.blocks[owner].args[nextArgument + 1]].type # a.type
          THEN emitError(s0, s0.pos, "argument and block argument type mismatch", 0)
          ELSE LET s1 == IF definingExistingArgs THEN s0
                         ELSE addArgument(s0, owner, a.type, FileLoc(useInfo.location))
                   arg == IF definingExistingArgs
                          THEN s.blocks[owner].args[nextArgument + 1]
                          ELSE Len(s1.vals)
                   l == parseTrailingLocationSpecifier(s1, a.loc, s1.vals[arg].loc)
               IN IF ~OK(l.s) THEN l.s
                  ELSE parseBlockArgs(
                         addDefinition([l.s EXCEPT !.vals[arg].loc = l.loc], useInfo, arg),
                         owner, Tail(args), definingExistingArgs, nextArgument + 1)

parseOptionalBlockArgList(s, owner, args) ==
  parseBlockArgs(s, owner, args, Len(s.blocks[owner].args) # 0, 0)

\* parseBlockBody up to its first operation: the insertion point.
parseBlockBody(s, block) == [s EXCEPT !.insertBlock = block]

\* parseBlock taking every block that has a label for a forward declaration.
parseBlock_redefines(s, block, name, args) ==
  LET nameLoc == s.pos
      prev == getBlockInfoByName(s, name)
      s1 == setBlockInfoByName([s EXCEPT !.pos = @ + 1], name,
                               [prev EXCEPT !.loc = nameLoc])
      body(st, b, inflight) ==
        LET st1 == parseOptionalBlockArgList(st, b, args)
        IN [s |-> IF OK(st1) THEN parseBlockBody(st1, b) ELSE st1,
            block |-> b, inflightBlock |-> inflight]
  IN IF prev.block = 0
     THEN IF block # 0
          THEN body(setBlockInfoByName(s1, name, [block |-> block, loc |-> nameLoc]),
                    block, 0)
          ELSE LET s2 == newBlock(s1)
                   b == Len(s2.blocks)
               IN body(setBlockInfoByName(s2, name, [block |-> b, loc |-> nameLoc]),
                       b, b)
     ELSE body(eraseForwardRef(s1, prev.block), prev.block, prev.block)

\* The label, the argument list and the ':' of a block.  block is the block
\* the caller provides (0: none).  Returns the state, the block defined and
\* the block held in flight.
parseBlock(s, block, name, args) ==
  LET nameLoc == s.pos
      prev == getBlockInfoByName(s, name)
      s1 == setBlockInfoByName([s EXCEPT !.pos = @ + 1], name,
                               [prev EXCEPT !.loc = nameLoc])
      body(st, b, inflight) ==
        LET st1 == parseOptionalBlockArgList(st, b, args)
        IN [s |-> IF OK(st1) THEN parseBlockBody(st1, b) ELSE st1,
            block |-> b, inflightBlock |-> inflight]
  IN IF prev.block = 0
     THEN IF block # 0
          THEN body(setBlockInfoByName(s1, name, [block |-> block, loc |-> nameLoc]),
                    block, 0)
          ELSE LET s2 == newBlock(s1)
                   b == Len(s2.blocks)
               IN body(setBlockInfoByName(s2, name, [block |-> b, loc |-> nameLoc]),
                       b, b)
     ELSE IF ~isForwardRef(s1, prev.block)
     THEN [s |-> emitError(s1, nameLoc, "redefinition of block", 0),
           block |-> block, inflightBlock |-> 0]
     ELSE body(eraseForwardRef(s1, prev.block), prev.block, prev.block)

\* ------------------------------------------------------------------- regions
getReferenceLoc(s, name, number) ==
  LET values == getSSAValueEntry(s, name)
  IN IF number >= Len(values) THEN 0
     ELSE IF values[number + 1].value # 0 THEN values[number + 1].loc
     ELSE 0

\* getReferenceLoc finding no reference in a forward-reference placeholder.
hasReference_realValuesOnly(s, name, number) ==
  LET values == getSSAValueEntry(s, name)
  IN number < Len(values) /\ values[number + 1].value # 0
     /\ s.vals[values[number + 1].value].kind # "placeholder"

hasReference(s, name, number) ==
  LET values == getSSAValueEntry(s, name)
  IN number < Len(values) /\ values[number + 1].value # 0

RECURSIVE addEntryArguments(_, _, _)
addEntryArguments(s, block, entryArguments) ==
  IF entryArguments = <<>> \/ ~OK(s) THEN s
  ELSE LET argInfo == Head(entryArguments)
       IN IF hasReference(s, argInfo.name, argInfo.number)
          THEN emitError(s, argInfo.location, "region entry argument is already in use",
                         getReferenceLoc(s, argInfo.name, argInfo.number))
          ELSE LET s1 == addArgument(s, block, argInfo.type, FileLoc(argInfo.location))
               IN addEntryArguments(addDefinition(s1, argInfo, Len(s1.vals)),
                                    block, Tail(entryArguments))

\* parseRegionBody taking a label for the entry block whatever the arguments
\* of the caller.
parseRegionBody_allowsLabel(s, region, startLoc, entryArguments, isIsolatedNameScope, label, args) ==
  LET currentPt == s.insertBlock
      s1 == newBlock(pushSSANameScope(s, isIsolatedNameScope))
      owningBlock == Len(s1.blocks)
      frame == [kind |-> "region", region |-> region, owningBlock |-> owningBlock,
                released |-> FALSE, block |-> owningBlock, inflightBlock |-> 0,
                currentPt |-> currentPt, numEntryArgs |-> Len(entryArguments),
                startLoc |-> startLoc]
      named == entryArguments # <<>> /\ entryArguments[1].name # ""
  IN LET s2 == IF named
                    THEN addEntryArguments(s1, owningBlock, entryArguments)
                    ELSE s1
          IN IF ~OK(s2) THEN PushFrame(s2, frame)
             ELSE IF label = "none"
             THEN PushFrame(parseBlockBody(s2, owningBlock), frame)
             ELSE LET r == parseBlock(s2, owningBlock, label, args)
                  IN PushFrame(r.s, [frame EXCEPT !.block = r.block,
                                                  !.inflightBlock = r.inflightBlock])

\* parseRegion up to the first operation of the entry block.  label is the
\* label of the first block ("none": the entry block is anonymous) and args
\* its argument list.
parseRegionBody(s, region, startLoc, entryArguments, isIsolatedNameScope, label, args) ==
  LET currentPt == s.insertBlock
      s1 == newBlock(pushSSANameScope(s, isIsolatedNameScope))
      owningBlock == Len(s1.blocks)
      frame == [kind |-> "region", region |-> region, owningBlock |-> owningBlock,
                released |-> FALSE, block |-> owningBlock, inflightBlock |-> 0,
                currentPt |-> currentPt, numEntryArgs |-> Len(entryArguments),
                startLoc |-> startLoc]
      named == entryArguments # <<>> /\ entryArguments[1].name # ""
  IN IF named /\ label # "none"
     THEN emitError(PushFrame(s1, frame), s1.pos,
                    "invalid block name in region with named arguments", 0)
     ELSE LET s2 == IF named
                    THEN addEntryArguments(s1, owningBlock, entryArguments)
                    ELSE s1
          IN IF ~OK(s2) THEN PushFrame(s2, frame)
             ELSE IF label = "none"
             THEN PushFrame(parseBlockBody(s2, owningBlock), frame)
             ELSE LET r == parseBlock(s2, owningBlock, label, args)
                  IN PushFrame(r.s, [frame EXCEPT !.block = r.block,
                                                  !.inflightBlock = r.inflightBlock])

newRegion(s) == [s EXCEPT !.regions = Append(@, [blocks |-> <<>>, op |-> 0])]

\* The '{' of a region of the operation in progress and the start of its
\* body.  arguments and isIsolatedNameScope are empty and false for a
\* generic operation, and what the parser of a custom operation passes to
\* parseRegion: the arguments it has parsed before the '{', each a name (""
\* for none) and a type, and enableNameShadowing.
beginRegion(s, arguments, isIsolatedNameScope, label, args) ==
  LET s1 == newRegion(s)
      region == Len(s1.regions)
      startLoc == s.pos + Len(arguments)
      entryArguments == [i \in DOMAIN arguments |->
                           [name |-> arguments[i].name, number |-> 0,
                            type |-> arguments[i].type, location |-> s.pos + i - 1]]
      s2 == [s1 EXCEPT !.stack[Len(s.stack)].regions = Append(@, region),
                       !.pos = startLoc + 1]
  IN parseRegionBody(s2, region, startLoc, entryArguments, isIsolatedNameScope,
                     label, args)

\* '{' '}' parsed through parseRegionBody: the region gets an entry block.
emptyRegion_parsesBody(s) ==
  LET s1 == newBlock(newRegion(s))
  IN regionPushBack([s1 EXCEPT !.stack[Len(s.stack)].regions = Append(@, Len(s1.regions)),
                               !.pos = @ + 1],
                    Len(s1.regions), Len(s1.blocks))

\* '{' '}': parseRegion does not call parseRegionBody.
emptyRegion(s) ==
  LET s1 == newRegion(s)
  IN [s1 EXCEPT !.stack[Len(s.stack)].regions = Append(@, Len(s1.regions)),
                !.pos = @ + 1]

\* parseBlock has returned success to parseRegionBody: the block goes into
\* the region.
finishBlock(s) ==
  LET f == TopFrame(s)
      s1 == [s EXCEPT !.stack[Len(s.stack)].inflightBlock = 0]
  IN IF f.released THEN regionPushBack(s1, f.region, f.block)
     ELSE IF f.numEntryArgs # 0 /\ Len(s.blocks[f.block].args) > f.numEntryArgs
     THEN emitError(s1, s.pos, "entry block arguments were already defined", 0)
     ELSE [regionPushBack(s1, f.region, f.owningBlock) EXCEPT
             !.stack[Len(s.stack)].released = TRUE]

nextBlock(s, label, args) ==
  LET s1 == finishBlock(s)
  IN IF ~OK(s1) THEN s1
     ELSE LET r == parseBlock(s1, 0, label, args)
          IN [r.s EXCEPT !.stack[Len(s.stack)].block = r.block,
                         !.stack[Len(s.stack)].inflightBlock = r.inflightBlock]

\* endRegion leaving the insertion point in the last block of the region.
endRegion_keepsInsertionPoint(s, order) ==
  LET s1 == finishBlock(s)
  IN IF ~OK(s1) THEN s1
     ELSE LET s2 == popSSANameScope(s1, order)
          IN IF ~OK(s2) THEN s2 ELSE PopFrame(s2)

\* endRegion undoing the scope and the insertion point when the pop fails.
endRegion_cleansUpOnFailure(s, order) ==
  LET f == TopFrame(s)
      s1 == finishBlock(s)
  IN IF ~OK(s1) THEN s1
     ELSE LET s2 == popSSANameScope(s1, order)
          IN IF ~OK(s2)
             THEN [popSSANameScope([s1 EXCEPT !.forwardRef[Len(s1.forwardRef)] = {}], <<>>)
                     EXCEPT !.status = "failed", !.diags = s2.diags,
                            !.insertBlock = f.currentPt]
             ELSE PopFrame([s2 EXCEPT !.insertBlock = f.currentPt])

\* The '}' of a region: the end of parseRegionBody and of parseRegion.
endRegion(s, order) ==
  LET f == TopFrame(s)
      s1 == finishBlock(s)
  IN IF ~OK(s1) THEN s1
     ELSE LET s2 == popSSANameScope(s1, order)
          IN IF ~OK(s2) THEN s2
             ELSE PopFrame([s2 EXCEPT !.insertBlock = f.currentPt])

\* ------------------------------------------------------------------ finalize
RECURSIVE Flatten(_)
Flatten(qq) == IF qq = <<>> THEN <<>> ELSE Head(qq) \o Flatten(Tail(qq))

\* The operations of a block, in order: operations are only ever appended.
RECURSIVE Ascending(_)
Ascending(S) ==
  IF S = {} THEN <<>>
  ELSE LET m == CHOOSE x \in S : \A y \in S : x <= y
       IN <<m>> \o Ascending(S \ {m})

opsInBlock(s, b) == Ascending({o \in DOMAIN s.ops : s.ops[o].block = b})

blocksOfOp(s, op) ==
  Flatten([i \in DOMAIN s.ops[op].regions |-> s.regions[s.ops[op].regions[i]].blocks])

\* Operation::walk, post-order, with the callback of finalize: the operation,
\* then the arguments of the blocks of its regions.
RECURSIVE walkOp(_, _)
RECURSIVE walkBlock(_, _)
walkOp(s, op) ==
  LET bs == blocksOfOp(s, op)
  IN Flatten([i \in DOMAIN bs |-> walkBlock(s, bs[i])])
     \o <<[kind |-> "op", id |-> op]>>
     \o Flatten([i \in DOMAIN bs |->
                   [k \in DOMAIN s.blocks[bs[i]].args |->
                      [kind |-> "arg", id |-> s.blocks[bs[i]].args[k]]]])
walkBlock(s, b) ==
  LET os == opsInBlock(s, b)
  IN Flatten([i \in DOMAIN os |-> walkOp(s, os[i])])

walkTopLevelOp(s) ==
  Flatten([i \in DOMAIN s.regions[TopRegion].blocks |->
             walkBlock(s, s.regions[TopRegion].blocks[i])])

getLoc(s, item) == IF item.kind = "op" THEN s.ops[item.id].loc ELSE s.vals[item.id].loc

setLoc(s, item, loc) ==
  IF item.kind = "op" THEN [s EXCEPT !.ops[item.id].loc = loc]
  ELSE [s EXCEPT !.vals[item.id].loc = loc]

\* resolveLocation leaving the marker in place of a location alias.
resolveLocation_leavesMarker(s, opOrArgument) ==
  LET fwdLoc == getLoc(s, opOrArgument)
  IN IF fwdLoc.kind # "opaque" THEN s
     ELSE LET locInfo == s.deferredLocsReferences[fwdLoc.n]
              attr == s.attributeAliasDefinitions[locInfo.identifier]
          IN IF attr = "none"
             THEN emitError(s, locInfo.loc, "operation location alias was never defined", 0)
             ELSE IF attr # "loc"
             THEN emitError(s, locInfo.loc, "expected location, but found", 0)
             ELSE s

resolveLocation(s, opOrArgument) ==
  LET fwdLoc == getLoc(s, opOrArgument)
  IN IF fwdLoc.kind # "opaque" THEN s
     ELSE LET locInfo == s.deferredLocsReferences[fwdLoc.n]
              attr == s.attributeAliasDefinitions[locInfo.identifier]
          IN IF attr = "none"
             THEN emitError(s, locInfo.loc, "operation location alias was never defined", 0)
             ELSE IF attr # "loc"
             THEN emitError(s, locInfo.loc, "expected location, but found", 0)
             ELSE setLoc(s, opOrArgument, AliasLoc(locInfo.identifier))

\* The walk is interrupted at the first location that does not resolve.
RECURSIVE resolveLocations(_, _)
resolveLocations(s, items) ==
  IF items = <<>> \/ ~OK(s) THEN s
  ELSE resolveLocations(resolveLocation(s, Head(items)), Tail(items))

\* A call out of the parser: verify(topLevelOp), asmState->finalize.
call(s, callee) == [s EXCEPT !.calls = Append(@, callee)]

\* verifyAndPopulate calling asmState whatever the verdict of the verifier.
verifyAndPopulate_ignoresVerdict(s, config, verified) ==
  LET s1 == IF config.shouldVerifyAfterParse THEN call(s, "verify") ELSE s
      s2 == IF config.asmState THEN call(s1, "asmState.finalize") ELSE s1
  IN IF config.shouldVerifyAfterParse /\ ~verified
     THEN [s2 EXCEPT !.status = "failed"]
     ELSE s2

\* The last steps of finalize: the verifier when config asks for it (its
\* verdict is verified), then asmState when there is one.
verifyAndPopulate(s, config, verified) ==
  LET s1 == IF config.shouldVerifyAfterParse THEN call(s, "verify") ELSE s
  IN IF config.shouldVerifyAfterParse /\ ~verified
     THEN [s1 EXCEPT !.status = "failed"]
     ELSE IF config.asmState THEN call(s1, "asmState.finalize") ELSE s1

\* finalize without its check of forwardRefPlaceholders.
finalize_ignoresPlaceholders(s, placeholders, order, config, verified) ==
  LET s1 == resolveLocations(s, walkTopLevelOp(s))
  IN IF ~OK(s1) THEN s1
     ELSE LET s2 == popSSANameScope(s1, order)
          IN IF ~OK(s2) THEN s2
             ELSE verifyAndPopulate(s2, config, verified)

\* placeholders, order: the iteration orders of forwardRefPlaceholders and of
\* the forward references of the top-level scope; config: the options of
\* the parse; verified: the verdict of the verifier.
finalize(s, placeholders, order, config, verified) ==
  IF s.forwardRefPlaceholders # {}
  THEN emitAll(s, array_pod_sort([i \in DOMAIN placeholders |-> placeholders[i].loc]),
               "use of undeclared SSA value name")
  ELSE LET s1 == resolveLocations(s, walkTopLevelOp(s))
       IN IF ~OK(s1) THEN s1
          ELSE LET s2 == popSSANameScope(s1, order)
               IN IF ~OK(s2) THEN s2
                  ELSE verifyAndPopulate(s2, config, verified)

\* The caller's block: operations spliced into it have block DestBlock.
DestBlock == 0

\* The Token::eof case calling finalize again after a failure.
parseEof_finalizesTwice(s, placeholders, order, config, verified) ==
  LET s1 == finalize(call(s, "finalize"), placeholders, order, config, verified)
  IN IF ~OK(s1) THEN call(s1, "finalize")
     ELSE [s1 EXCEPT !.status = "succeeded"]

\* The Token::eof case splicing the operations whatever finalize returns.
parseEof_splicesOnFailure(s, placeholders, order, config, verified) ==
  LET s1 == finalize(call(s, "finalize"), placeholders, order, config, verified)
      parsedOps == opsInBlock(s1, TopBlock)
  IN [s1 EXCEPT !.destOps = @ \o parsedOps,
                !.ops = [o \in DOMAIN s1.ops |->
                           IF s1.ops[o].block = TopBlock
                           THEN [s1.ops[o] EXCEPT !.block = DestBlock]
                           ELSE s1.ops[o]],
                !.status = IF OK(s1) THEN "succeeded" ELSE "failed"]

\* The Token::eof case of TopLevelOperationParser::parse.
parseEof(s, placeholders, order, config, verified) ==
  LET s1 == finalize(call(s, "finalize"), placeholders, order, config, verified)
      parsedOps == opsInBlock(s1, TopBlock)
  IN IF ~OK(s1) THEN s1
     ELSE [s1 EXCEPT !.destOps = @ \o parsedOps,
                     !.ops = [o \in DOMAIN s1.ops |->
                                IF s1.ops[o].block = TopBlock
                                THEN [s1.ops[o] EXCEPT !.block = DestBlock]
                                ELSE s1.ops[o]],
                     !.status = "succeeded"]

parseAttributeAliasDef(s, aliasName, attr) ==
  IF s.attributeAliasDefinitions[aliasName] # "none"
  THEN emitError(s, s.pos, "redefinition of attribute alias id", 0)
  ELSE [s EXCEPT !.attributeAliasDefinitions[aliasName] = attr, !.pos = @ + 1]

\* A file metadata dictionary that is empty (key "none") or has one key.
parseFileMetadataDictionary(s, key) ==
  IF key = "none" THEN [s EXCEPT !.pos = @ + 1]
  ELSE emitError([s EXCEPT !.pos = @ + 1], s.pos + 1,
                 "unknown key in file metadata dictionary", 0)

\* ---------------------------------------------------------------- destruction
\* The values defined in a block and the blocks nested in it.
RECURSIVE definedValues(_, _)
definedValues(s, b) ==
  Range(s.blocks[b].args)
  \cup UNION {Range(s.ops[o].results) : o \in {p \in DOMAIN s.ops : s.ops[p].block = b}}
  \cup UNION {definedValues(s, n) :
                n \in UNION {Range(s.regions[r].blocks) :
                               r \in UNION {Range(s.ops[o].regions) :
                                              o \in {p \in DOMAIN s.ops : s.ops[p].block = b}}}}

\* The uses of values and blocks among the operands and successors of the
\* operations in from.
usesOf(s, from, values, blks) ==
  {[from |-> p[1], kind |-> "value", to |-> p[2]] :
     p \in {q \in from \X values : q[2] \in Range(s.ops[q[1]].operands)}}
  \cup {[from |-> p[1], kind |-> "block", to |-> p[2]] :
          p \in {q \in from \X blks : q[2] \in Range(s.ops[q[1]].successors)}}

\* The operations that have not been deleted.
liveOps(s) == {o \in DOMAIN s.ops : [kind |-> "op", id |-> o] \notin s.freed}

\* Value::dropAllUses and Block::dropAllUses on values and blocks.
dropUsesOf(s, values, blks) ==
  [s EXCEPT !.ops = [o \in DOMAIN s.ops |->
      [s.ops[o] EXCEPT
         !.operands = [k \in DOMAIN s.ops[o].operands |->
                         IF s.ops[o].operands[k] \in values THEN 0
                         ELSE s.ops[o].operands[k]],
         !.successors = [k \in DOMAIN s.ops[o].successors |->
                           IF s.ops[o].successors[k] \in blks THEN 0
                           ELSE s.ops[o].successors[k]]]],
            !.dropped = @ \cup usesOf(s, liveOps(s), values, blks)]

\* Block::dropAllDefinedValueUses
dropAllDefinedValueUses(s, b) == dropUsesOf(s, definedValues(s, b), {b})

\* A block and the blocks nested in its operations.
RECURSIVE blockTree(_, _)
blockTree(s, b) ==
  {b} \cup UNION {blockTree(s, n) :
                   n \in UNION {Range(s.regions[r].blocks) :
                                  r \in UNION {Range(s.ops[o].regions) :
                                                 o \in {p \in DOMAIN s.ops : s.ops[p].block = b}}}}

\* The deletion of blocks, with all that is nested in them, and of the
\* placeholder operations of values: the uses that operations outside of
\* them still have of them dangle, and so does a second deletion.
delete(s, blks, values) ==
  LET tree == UNION {blockTree(s, b) : b \in blks}
      inside == {o \in DOMAIN s.ops : s.ops[o].block \in tree}
      defined == values \cup UNION {definedValues(s, b) : b \in blks}
      nodes == {[kind |-> "block", id |-> b] : b \in tree}
               \cup {[kind |-> "op", id |-> o] : o \in inside}
               \cup {[kind |-> "value", id |-> v] : v \in defined}
  IN [s EXCEPT !.freed = @ \cup nodes,
               !.dangling = @ \cup usesOf(s, liveOps(s) \ inside, defined, tree)
                              \cup {[from |-> 0, kind |-> n.kind, to |-> n.id] :
                                       n \in nodes \cap s.freed}]

\* The owners of the parse functions in progress deleting what they own
\* without the scope guards.
RECURSIVE unwind_withoutGuards(_)
unwind_withoutGuards(s) ==
  IF s.stack = <<>> THEN s
  ELSE LET f == TopFrame(s)
           s0 == PopFrame(s)
       IN IF f.kind = "region"
          THEN LET s1 == IF f.inflightBlock # 0
                         THEN delete(s0, {f.inflightBlock}, {})
                         ELSE s0
               IN unwind_withoutGuards(IF f.released THEN s1
                                       ELSE delete(s1, {f.owningBlock}, {}))
          ELSE unwind_withoutGuards(
                 delete(s0, UNION {Range(s0.regions[r].blocks) : r \in Range(f.regions)},
                        {}))

\* The scope guards and owners of the parse functions in progress, innermost
\* first: cleanupOnFailure and inflightBlock of parseBlock, failureCleanup
\* and owningBlock of parseRegionBody, CleanupOpStateRegions and the
\* OperationState of the operation being parsed.
RECURSIVE unwind(_)
unwind(s) ==
  IF s.stack = <<>> THEN s
  ELSE LET f == TopFrame(s)
           s0 == PopFrame(s)
       IN IF f.kind = "region"
          THEN LET s1 == IF f.inflightBlock # 0
                         THEN delete(dropAllDefinedValueUses(s0, f.inflightBlock),
                                     {f.inflightBlock}, {})
                         ELSE s0
               IN unwind(IF f.released THEN s1
                         ELSE delete(dropAllDefinedValueUses(s1, f.owningBlock),
                                     {f.owningBlock}, {}))
          ELSE LET bs == UNION {Range(s0.regions[r].blocks) : r \in Range(f.regions)}
               IN unwind(delete(dropUsesOf(s0, UNION {definedValues(s0, b) : b \in bs}, bs),
                                bs, {}))

\* ~OperationParser, after the stack of a failed parse has unwound.
destroyParser(s) ==
  LET s1 == unwind(s)
      s2 == delete(dropUsesOf(s1, s1.forwardRefOps, {}), {}, s1.forwardRefOps)
      fwdBlocks == {e.block : e \in UNION Range(s2.forwardRef)}
  IN [delete(dropUsesOf(s2, {}, fwdBlocks), fwdBlocks, {}) EXCEPT
        !.status = "destroyed",
        !.isolatedNameScopes = <<>>, !.blocksByName = <<>>, !.forwardRef = <<>>,
        !.forwardRefPlaceholders = {}, !.forwardRefOps = {},
        !.deferredLocsReferences = <<>>]

\* ~OwningOpRef of topLevelOp when parse returns: the top-level operation
\* is erased with the blocks of its region.
eraseTopLevelOp(s) == delete(s, Range(s.regions[TopRegion].blocks), {})

\* -------------------------------------------------------------------- inputs
\* The input texts are drawn from five parts of the grammar, each with its
\* own length: value names with nested regions, operand lists with nested
\* regions, block labels with successors and block arguments, location
\* aliases, and all of it together.
Grammars == {"values", "operands", "blocks", "locations", "custom", "all"}

Budget ==
  CASE grammar \in {"values", "operands", "custom"} -> MaxPos
    [] grammar = "blocks" -> MaxPos - 1
    [] grammar = "locations" -> MaxPos - 1
    [] OTHER -> MaxPos - 2

\* Result-id lists: one name for one result and, in the short texts of the
\* whole grammar, result groups.
ResultIDLists ==
  {<<>>}
  \cup (IF grammar \in {"values", "all"}
        THEN {<<[name |-> n, num |-> 1]>> : n \in Names} ELSE {})
  \cup (IF grammar = "custom" THEN {<<[name |-> "a", num |-> 1]>>} ELSE {})
  \cup (IF grammar = "all"
        THEN {<<[name |-> "a", num |-> k]>> : k \in {0, 2}}
             \cup {<<[name |-> "a", num |-> 2], [name |-> "b", num |-> 1]>>}
        ELSE {})

\* Operand lists: one operand, with a result number in the texts of value
\* names and of the whole grammar, and two operands in the texts of operand
\* lists.
UseLists ==
  {<<>>}
  \cup (IF grammar \in {"values", "operands", "all"}
        THEN {<<[name |-> n, number |-> 0]>> : n \in Names} ELSE {})
  \cup (IF grammar = "custom" THEN {<<[name |-> "a", number |-> 0]>>} ELSE {})
  \cup (IF grammar \in {"values", "all"}
        THEN {<<[name |-> "a", number |-> 1]>>} ELSE {})
  \cup (IF grammar \in {"operands", "all"}
        THEN {<<[name |-> "a", number |-> 0], [name |-> "b", number |-> 0]>>}
        ELSE {})

SuccessorLists ==
  {<<>>}
  \cup (IF grammar \in {"blocks", "all"} THEN {<<l>> : l \in Labels} ELSE {})
  \cup (IF grammar = "blocks" THEN {<<"bb1", "bb2">>} ELSE {})

LocSpecs == {"none"} \cup (IF grammar \in {"locations", "all"} THEN Aliases ELSE {})

\* Whether the region of an operation is parsed as an isolated name scope:
\* never in the generic form, and as its parser asks for in the custom form.
NameShadowing == IF grammar = "custom" THEN BOOLEAN ELSE {FALSE}

\* The arguments the parser of a custom operation passes to parseRegion:
\* none, named ones, or one that has a type only.
EntryArgLists ==
  {<<>>, <<[name |-> "a", type |-> "i32"]>>,
   <<[name |-> "a", type |-> "i32"], [name |-> "b", type |-> "f32"]>>,
   <<[name |-> "", type |-> "i32"]>>}

\* What the parser of a custom operation reports when it returns: whether
\* it emitted an error through the parser, its result, and the names of the
\* attributes it added.
CallbackResults ==
  [emitted : BOOLEAN, returns : {"success", "failure"},
   attributes : {<<>>, <<"x">>, <<"x", "x">>}]

\* The options of the parse that finalize reads.
Configs == [shouldVerifyAfterParse : BOOLEAN, asmState : BOOLEAN]

\* The keys of a file metadata dictionary: none, or one no parser knows.
MetadataKeys == {"none", "bogus"}

BlockLabels ==
  CASE grammar \in {"values", "operands"} -> {}
    [] grammar = "custom" -> {"bb1"}
    [] OTHER -> Labels

\* The inputs of a function type for n operand names: one type per operand,
\* or one type too few.
InputTypeLists(n) ==
  [1..n -> Types] \cup (IF n > 0 THEN {[i \in 1..(n - 1) |-> "i32"]} ELSE {})

\* The results of a function type: all of one type, as many as the result
\* ids name or one fewer.
ResultTypeLists(resultIDs) ==
  LET n == SumSeq([i \in DOMAIN resultIDs |-> resultIDs[i].num])
  IN {[i \in 1..k |-> t] : k \in {n, n - 1} \cap Nat, t \in Types}

ArgLists ==
  {<<>>} \cup {<<[name |-> n, number |-> k, type |-> t, loc |-> l]>> :
                 n \in (IF grammar = "custom" THEN {"a"} ELSE Names),
                 k \in (IF grammar = "custom" THEN {0, 1} ELSE {0}),
                 t \in Types, l \in LocSpecs}

LocCost(l) == IF l = "none" THEN 0 ELSE 1
ArgsCost(args) == SumSeq([i \in DOMAIN args |-> 1 + LocCost(args[i].loc)])

Remaining == Budget + 1 - pos

Depth == Cardinality({i \in DOMAIN stack : stack[i].kind = "region"})

AtTopLevel == stack = <<>>
InBlock == stack # <<>> /\ stack[Len(stack)].kind = "region"
InOperation == stack # <<>> /\ stack[Len(stack)].kind = "op"

\* ------------------------------------------------------------------- actions
\* The parser after construction, before the first token is looked at.
InitParser ==
  /\ status = "parsing"
  /\ pos = 1
  /\ isolatedNameScopes = <<[values |-> [n \in Names |-> <<>>],
                             definitionsPerScope |-> <<{}>>]>>
  /\ blocksByName = <<[l \in Labels |-> NullBlockDef]>>
  /\ forwardRef = <<{}>>
  /\ forwardRefPlaceholders = {}
  /\ forwardRefOps = {}
  /\ deferredLocsReferences = <<>>
  /\ attributeAliasDefinitions = [a \in Aliases |-> "none"]
  /\ vals = <<>>
  /\ ops = <<>>
  /\ blocks = <<[args |-> <<>>, region |-> TopRegion]>>
  /\ regions = <<[blocks |-> <<TopBlock>>, op |-> 0]>>
  /\ insertBlock = TopBlock
  /\ stack = <<>>
  /\ diags = <<>>
  /\ destOps = <<>>
  /\ calls = <<>>
  /\ freed = {}
  /\ dropped = {}
  /\ dangling = {}

\* The token-level inputs carry no text: the buffer plays no part in them.
Init ==
  /\ InitParser
  /\ grammar \in Grammars
  /\ buffer = <<>>
  /\ curToken = [kind |-> "eof", loc |-> 0]
  /\ listResult = "none"

\* parseOperation on a generic operation without regions.
parseOperation(s, in) ==
  LET s1 == beginOperation(s, in)
  IN IF OK(s1) THEN endOperation(s1, in) ELSE s1

ParseOperation ==
  /\ status = "parsing"
  /\ AtTopLevel \/ InBlock
  /\ \E resultIDs \in ResultIDLists, operands \in UseLists,
        successors \in SuccessorLists, loc \in LocSpecs :
       /\ Len(resultIDs) + Len(operands) + Len(successors) + LocCost(loc) + 1
            <= Remaining
       /\ \E terminator \in (IF successors = <<>> THEN {TRUE} ELSE BOOLEAN),
             inputs \in InputTypeLists(Len(operands)),
             results \in ResultTypeLists(resultIDs) :
            Commit(parseOperation(Cur,
                     [resultIDs |-> resultIDs, operands |-> operands,
                      successors |-> successors, terminator |-> terminator,
                      inputs |-> inputs, results |-> results, loc |-> loc]))

\* parseOperation on a generic operation with a region list, up to its '('.
BeginOperation ==
  /\ status = "parsing"
  /\ AtTopLevel \/ InBlock
  /\ Depth < MaxDepth
  /\ \E resultIDs \in ResultIDLists, operands \in UseLists,
        successors \in SuccessorLists :
       /\ Len(resultIDs) + Len(operands) + Len(successors) + 1 <= Remaining
       /\ \E terminator \in (IF successors = <<>> THEN {TRUE} ELSE BOOLEAN) :
            Commit(beginOperation(Cur,
                     [resultIDs |-> resultIDs, operands |-> operands,
                      successors |-> successors, terminator |-> terminator]))

\* A generic operation passes no arguments to parseRegion and never asks
\* for an isolated name scope.
BeginRegion ==
  /\ status = "parsing"
  /\ InOperation
  /\ \E arguments \in (IF stack[Len(stack)].custom THEN EntryArgLists ELSE {<<>>}),
        isIsolatedNameScope \in (IF stack[Len(stack)].custom THEN NameShadowing
                                 ELSE {FALSE}) :
       \/ /\ Len(arguments) + 1 <= Remaining
          /\ Commit(beginRegion(Cur, arguments, isIsolatedNameScope, "none", <<>>))
       \/ \E label \in BlockLabels, args \in ArgLists :
            /\ Len(arguments) + 2 + ArgsCost(args) <= Remaining
            /\ Commit(beginRegion(Cur, arguments, isIsolatedNameScope, label, args))

EmptyRegion ==
  /\ status = "parsing"
  /\ InOperation
  /\ Remaining >= 1
  /\ Commit(emptyRegion(Cur))

\* A label right after the '{' is the label of the entry block.
NextBlock ==
  /\ status = "parsing"
  /\ InBlock
  /\ pos # stack[Len(stack)].startLoc + 1
  /\ \E label \in BlockLabels, args \in ArgLists :
       /\ 1 + ArgsCost(args) <= Remaining
       /\ Commit(nextBlock(Cur, label, args))

\* A '}' right after the '{' of a region without arguments is the empty
\* region.
EndRegion ==
  /\ status = "parsing"
  /\ InBlock
  /\ pos # stack[Len(stack)].startLoc + 1 \/ stack[Len(stack)].numEntryArgs # 0
  /\ \E order \in Orderings(forwardRef[Len(forwardRef)]) :
       Commit(endRegion(Cur, order))

\* The rest of a generic operation after its region list.
EndOperation ==
  /\ status = "parsing"
  /\ InOperation
  /\ ~stack[Len(stack)].custom
  /\ stack[Len(stack)].regions # <<>>
  /\ \E loc \in LocSpecs :
       /\ LocCost(loc) <= Remaining
       /\ \E inputs \in InputTypeLists(Len(stack[Len(stack)].opInfo)),
             results \in ResultTypeLists(stack[Len(stack)].resultIDs) :
            Commit(endOperation(Cur, [inputs |-> inputs, results |-> results,
                                      loc |-> loc]))

\* parseOperation on an operation in the custom form, up to the first
\* region its parser parses or to its end: the result ids, the name and
\* the operand names.
BeginCustomOperation ==
  /\ status = "parsing"
  /\ AtTopLevel \/ InBlock
  /\ grammar = "custom"
  /\ Depth < MaxDepth
  /\ \E resultIDs \in ResultIDLists, operands \in UseLists :
       /\ Len(resultIDs) + Len(operands) + 1 <= Remaining
       /\ Commit(beginCustomOperation(Cur, [resultIDs |-> resultIDs,
                                            operands |-> operands]))

\* The parser of the custom operation returns.
EndCustomOperation ==
  /\ status = "parsing"
  /\ InOperation
  /\ stack[Len(stack)].custom
  /\ \E callback \in CallbackResults,
        inputs \in [1..Len(stack[Len(stack)].opInfo) -> Types],
        results \in ResultTypeLists(stack[Len(stack)].resultIDs) :
       Commit(parseCustomOperation(Cur, callback,
                [inputs |-> inputs, results |-> results, loc |-> "none"]))

ParseAttributeAliasDef ==
  /\ status = "parsing"
  /\ AtTopLevel
  /\ grammar \in {"locations", "all"}
  /\ Remaining >= 1
  /\ \E aliasName \in Aliases, attr \in {"loc", "attr"} :
       Commit(parseAttributeAliasDef(Cur, aliasName, attr))

ParseFileMetadataDictionary ==
  /\ status = "parsing"
  /\ AtTopLevel
  /\ grammar = "locations"
  /\ Remaining >= 2
  /\ \E key \in MetadataKeys : Commit(parseFileMetadataDictionary(Cur, key))

\* The end of the input at the top level: finalize and the splice.
EndOfFile ==
  /\ status = "parsing"
  /\ AtTopLevel
  /\ \E placeholders \in Orderings(forwardRefPlaceholders),
        order \in Orderings(forwardRef[Len(forwardRef)]),
        config \in Configs, verified \in BOOLEAN :
       Commit(parseEof(Cur, placeholders, order, config, verified))

\* The end of the input inside an operation or a region: a wrong token.
UnexpectedEndOfFile ==
  /\ status = "parsing"
  /\ ~AtTopLevel
  /\ Commit(emitError(Cur, pos,
                      IF InBlock THEN "expected operation name in quotes"
                      ELSE "expected ':' followed by operation type", 0))

\* Token::error at the top level: the lexer has reported it.
ErrorToken ==
  /\ status = "parsing"
  /\ AtTopLevel
  /\ Commit([Cur EXCEPT !.status = "failed"])

\* The parse has returned: the stack unwinds and the parser is destroyed.
Destroy ==
  /\ status \in {"failed", "succeeded"}
  /\ Commit(eraseTopLevelOp(destroyParser(Cur)))

Next ==
  \/ ParseOperation
  \/ BeginOperation
  \/ BeginRegion
  \/ EmptyRegion
  \/ NextBlock
  \/ EndRegion
  \/ EndOperation
  \/ BeginCustomOperation
  \/ EndCustomOperation
  \/ ParseAttributeAliasDef
  \/ ParseFileMetadataDictionary
  \/ EndOfFile
  \/ UnexpectedEndOfFile
  \/ ErrorToken
  \/ Destroy

Spec == Init /\ [][Next]_vars

\* ------------------------------------------------------- wrong-token errors
\* Parser::emitWrongTokenError.  The buffer is a sequence of characters and a
\* location an offset into it: the character at offset n is buffer[n + 1],
\* and a StringRef that starts at the buffer start is given by its length.
emitWrongTokenError(s, text, token, message) ==
  LET loc == IF token.kind = "eof" THEN token.loc - 1 ELSE token.loc
      originalLoc == loc
      rtrim(n) ==
        CHOOSE m \in 0..n :
          /\ m = 0 \/ text[m] \notin {" ", "\t"}
          /\ \A k \in (m + 1)..n : text[k] \in {" ", "\t"}
      RECURSIVE backUp(_)
      backUp(n) ==
        LET startOfBuffer == rtrim(n)
        IN IF startOfBuffer = 0 THEN originalLoc
           ELSE IF text[startOfBuffer] \notin {"\n", "\r"} THEN startOfBuffer
           ELSE LET shorter == startOfBuffer - 1
                    newLines == {i \in 1..shorter : text[i] \in {"\n", "\r"}}
                    prevLine == IF newLines = {} THEN 0
                                ELSE (CHOOSE i \in newLines :
                                        \A j \in newLines : j <= i) - 1
                    comments == {c \in prevLine..(shorter - 2) :
                                   text[c + 1] = "/" /\ text[c + 2] = "/"}
                IN IF comments = {} THEN backUp(shorter)
                   ELSE backUp(CHOOSE c \in comments : \A d \in comments : c <= d)
  IN emitError(s, backUp(loc), message, 0)

\* A buffer the lexer has accepted up to the current token, and that token.
\* The characters are a token of one character ("x"), the blank, the newline
\* and '/': a '/' is part of a comment, and a token does not start inside a
\* comment.
InitWrongToken ==
  /\ InitParser
  /\ grammar = "text"
  /\ listResult = "none"
  /\ buffer \in UNION {[1..n -> {"x", " ", "\n", "/"}] : n \in 1..MaxBuffer}
  /\ \A i \in DOMAIN buffer :
        buffer[i] = "/" =>
          \E c \in 1..i : /\ c < Len(buffer)
                           /\ buffer[c] = "/" /\ buffer[c + 1] = "/"
                           /\ \A k \in c..(i - 1) : buffer[k] # "\n"
  /\ curToken \in [kind : {"eof", "token"}, loc : 0..Len(buffer)]
  /\ curToken.kind = "eof" <=> curToken.loc = Len(buffer)
  /\ curToken.kind = "token" =>
        /\ buffer[curToken.loc + 1] = "x"
        /\ \A c \in 1..(curToken.loc - 1) :
              buffer[c] = "/" /\ buffer[c + 1] = "/"
                => \E k \in c..curToken.loc : buffer[k] = "\n"

\* A parse function finds another token than the one it needs.
EmitWrongTokenError ==
  /\ status = "parsing"
  /\ grammar = "text"
  /\ Commit(emitWrongTokenError(Cur, buffer, curToken, "expected token"))

SpecWrongToken == InitWrongToken /\ [][EmitWrongTokenError]_vars

\* ------------------------------------------------- parseCommaSeparatedList
\* Parser::Delimiter with the tokens that open and close the list.
Delimiters ==
  {[kind |-> "None", open |-> "", close |-> "", optional |-> FALSE]}
  \cup {[kind |-> k[1], open |-> k[2], close |-> k[3], optional |-> FALSE] :
          k \in {<<"Paren", "(", ")">>, <<"LessGreater", "<", ">">>,
                 <<"Square", "[", "]">>, <<"Braces", "{", "}">>}}
  \cup {[kind |-> k[1], open |-> k[2], close |-> k[3], optional |-> TRUE] :
          k \in {<<"OptionalParen", "(", ")">>, <<"OptionalLessGreater", "<", ">">>,
                 <<"OptionalSquare", "[", "]">>, <<"OptionalBraces", "{", "}">>}}

\* text: the tokens of the buffer, one character each, the current one at
\* s.pos.  parseElementFn is the parser of an element "x": it is recorded in
\* calls, takes the "x" and fails with a diagnostic on another token.
\* Returns the state and the ParseResult.
parseCommaSeparatedList(s, text, delimiter, contextMessage) ==
  LET getToken(t) == IF t.pos <= Len(text) THEN text[t.pos] ELSE "eof"
      consumeToken(t) == [t EXCEPT !.pos = @ + 1]
      success(t) == [s |-> t, result |-> "success"]
      failure(t) == [s |-> t, result |-> "failure"]
      parseToken(t, expectedToken, message) ==
        IF getToken(t) = expectedToken THEN success(consumeToken(t))
        ELSE failure(emitWrongTokenError(t, text,
                       [kind |-> IF getToken(t) = "eof" THEN "eof" ELSE "token",
                        loc |-> t.pos - 1], message))
      parseElementFn(t) ==
        IF getToken(t) = "x" THEN success(consumeToken(call(t, "parseElementFn")))
        ELSE failure(emitError(call(t, "parseElementFn"), t.pos - 1,
                               "expected element", 0))
      RECURSIVE elements(_)
      elements(t) ==
        LET e == parseElementFn(t)
        IN IF e.result = "failure" THEN e
           ELSE IF getToken(e.s) = "," THEN elements(consumeToken(e.s))
           ELSE e
      nonEmpty(t) ==
        LET e == elements(t)
        IN IF e.result = "failure" THEN e
           ELSE IF delimiter.kind = "None" THEN success(e.s)
           ELSE parseToken(e.s, delimiter.close,
                           "expected '" \o delimiter.close \o "'" \o contextMessage)
  IN IF delimiter.kind = "None" THEN nonEmpty(s)
     ELSE IF delimiter.optional /\ getToken(s) # delimiter.open THEN success(s)
     ELSE LET open == parseToken(s, delimiter.open,
                                 "expected '" \o delimiter.open \o "'" \o contextMessage)
          IN IF open.result = "failure"
             THEN IF delimiter.kind \in {"LessGreater", "OptionalLessGreater"}
                  THEN success(open.s)
                  ELSE failure(open.s)
             ELSE IF getToken(open.s) = delimiter.close
             THEN success(consumeToken(open.s))
             ELSE nonEmpty(open.s)

\* The buffers of one to MaxTokens tokens before a list is parsed.
InitCommaList ==
  /\ InitParser
  /\ grammar = "list"
  /\ buffer \in UNION {[1..n -> {"(", ")", "<", ">", "[", "]", "{", "}", ",", "x"}] :
                        n \in 1..MaxTokens}
  /\ curToken = [kind |-> "token", loc |-> 0]
  /\ listResult = "none"

\* A parse function parses a list that starts at the current token.
ParseCommaSeparatedList ==
  /\ status = "parsing"
  /\ grammar = "list"
  /\ listResult = "none"
  /\ \E delimiter \in Delimiters :
       LET r == parseCommaSeparatedList(Cur, buffer, delimiter, "")
       IN /\ listResult' = r.result
          /\ status' = r.s.status /\ pos' = r.s.pos
          /\ diags' = r.s.diags /\ calls' = r.s.calls
          /\ UNCHANGED <<isolatedNameScopes, blocksByName, forwardRef,
                         forwardRefPlaceholders, forwardRefOps,
                         deferredLocsReferences, attributeAliasDefinitions,
                         vals, ops, blocks, regions, insertBlock, stack,
                         destOps, freed, dropped, dangling, grammar, buffer,
                         curToken>>

SpecCommaList == InitCommaList /\ [][ParseCommaSeparatedList]_vars

\* ==================================================================== claims
\* The diagnostics a step appends.
NewDiags == SubSeq(diags', Len(diags) + 1, Len(diags'))

\* The parse has returned and the parser still exists.
Returned == status \in {"succeeded", "failed"}

\* ---- C1
\* C1 as stated: at the end of the parse, forwardRefPlaceholders is empty if
\* and only if the parse succeeded.
C1_EmptyIffSucceeded ==
  Returned => (forwardRefPlaceholders = {} <=> status = "succeeded")

\* C1, the direction the code keeps: a parse that succeeds ends with
\* forwardRefPlaceholders empty; finalize never returns success while a
\* placeholder remains.
C1_SucceededImpliesEmpty ==
  status = "succeeded" => forwardRefPlaceholders = {}

\* A parse that created a placeholder, resolved it and succeeded.
C1_Witness ==
  status = "succeeded" /\ forwardRefOps # {} /\ forwardRefPlaceholders = {}

\* ---- C2
\* The uses of a value among the operands of the operations.
Uses(v) == {o \in DOMAIN ops : \E k \in DOMAIN ops[o].operands : ops[o].operands[k] = v}

\* The locations of the operands that use a value, in the operations created
\* whose location is still the location of their name.
OperandUseLocs(v) ==
  UNION {{ops[o].loc.n + k : k \in {j \in DOMAIN ops[o].operands : ops[o].operands[j] = v}} :
           o \in {p \in DOMAIN ops : ops[p].loc.kind = "file"}}

\* C2 as stated: when finalize fails on a name that was used and never
\* defined, each "use of undeclared SSA value name" is located at the first
\* use of a name left undefined: no operand that uses the name comes before
\* it in the source.
C2_ReportedAtFirstUse ==
  status = "failed" =>
    \A i \in DOMAIN diags :
      diags[i].msg = "use of undeclared SSA value name" =>
        \E e \in forwardRefPlaceholders :
          /\ e.loc = diags[i].loc
          /\ \A u \in OperandUseLocs(e.value) : e.loc <= u

\* ---- C3
\* The binding of (name, number) in the current isolated scope.
Binding(name, number) ==
  LET entries == isolatedNameScopes[Len(isolatedNameScopes)].values[name]
  IN IF number < Len(entries) THEN entries[number + 1] ELSE NullDef

Bindings == {Binding(name, number) : name \in Names, number \in 0..1}

LastDiag == diags[Len(diags)]

\* C3: in every state the parser reaches, at any depth of nested scopes,
\* addDefinition on a (name, number) bound to a value that is no placeholder
\* fails with "redefinition of SSA value" and a note at the location of the
\* prior definition and changes nothing else; and after every such failure
\* of the parse the prior definition is still bound.
C3_RedefinitionRejected ==
  /\ status = "parsing" =>
       \A name \in Names, number \in 0..1, value \in DOMAIN vals :
         LET b == Binding(name, number)
         IN b.value # 0 /\ ~isForwardRefPlaceholder(Cur, b.value) =>
              addDefinition(Cur, [name |-> name, number |-> number,
                                  location |-> pos], value)
              = [Cur EXCEPT !.status = "failed",
                            !.diags = Append(@, [loc |-> pos,
                                                 msg |-> "redefinition of SSA value",
                                                 note |-> b.loc])]
  /\ status = "failed" /\ diags # <<>>
       /\ LastDiag.msg = "redefinition of SSA value" =>
         \E b \in Bindings :
           /\ b.value # 0 /\ ~isForwardRefPlaceholder(Cur, b.value)
           /\ b.loc = LastDiag.note /\ b.loc < LastDiag.loc

\* A redefinition inside a nested region of a name defined outside of it
\* has been rejected.
C3_Witness ==
  /\ status = "failed" /\ diags # <<>>
  /\ LastDiag.msg = "redefinition of SSA value"
  /\ Len(isolatedNameScopes[Len(isolatedNameScopes)].definitionsPerScope) >= 2
  /\ \E b \in Bindings : b.value # 0 /\ b.loc = LastDiag.note

\* ---- C4
\* C4 as stated: when a definition is rejected for having another type than
\* the forward reference to its name, the note of "definition of SSA value
\* has type" is at the first use of the name, and the placeholder is still
\* bound, used and in forwardRefPlaceholders.
C4_NoteAtFirstUse ==
  status = "failed" /\ diags # <<>>
    /\ LastDiag.msg = "definition of SSA value has type" =>
      \E b \in Bindings :
        /\ b \in forwardRefPlaceholders
        /\ b.loc = LastDiag.note
        /\ Uses(b.value) # {}
        /\ \A u \in OperandUseLocs(b.value) : LastDiag.note <= u

\* ---- C5
\* The label map and the forward references of the current scope.
CurrentBlocksByName == blocksByName[Len(blocksByName)]
CurrentForwardRef == forwardRef[Len(forwardRef)]

\* The label whose definition a step of NextBlock parses.
Defines(l) == NextBlock /\ blocksByName'[Len(blocksByName)][l].loc = pos

\* C5: within a scope a label keeps the Block it first got, through every
\* later reference and through its definition; the definition of a label
\* that was forward-referenced makes that Block the block parsed and
\* creates no other block, and the successors that referred to it still do.
C5_BlockIdentity ==
  [][status = "parsing" /\ Len(blocksByName') = Len(blocksByName) =>
       \A l \in Labels :
         LET b == CurrentBlocksByName[l].block
         IN b # 0 =>
              /\ blocksByName'[Len(blocksByName)][l].block = b
              /\ \A o \in DOMAIN ops : ops'[o].successors = ops[o].successors
              /\ Defines(l) /\ status' = "parsing" =>
                   /\ Len(blocks') = Len(blocks)
                   /\ stack'[Len(stack')].block = b
                   /\ insertBlock' = b]_vars

\* A label was referenced by a successor before its definition, and the
\* block being parsed under that label is the block the successor holds.
C5_Witness ==
  /\ status = "parsing" /\ InBlock
  /\ \E l \in Labels, o \in DOMAIN ops :
       LET def == CurrentBlocksByName[l]
       IN /\ def.block # 0
          /\ def.block = stack[Len(stack)].block
          /\ def.block \in Range(ops[o].successors)
          /\ ops[o].loc.kind = "file" /\ ops[o].loc.n < def.loc
          /\ \A e \in CurrentForwardRef : e.block # def.block

\* ---- C6
\* The locations of the successors that refer to a block, in the operations
\* created and in the operations in progress.
SuccessorUseLocs(b) ==
  UNION {{ops[o].loc.n + Len(ops[o].operands) + k :
            k \in {j \in DOMAIN ops[o].successors : ops[o].successors[j] = b}} :
           o \in {p \in DOMAIN ops : ops[p].loc.kind = "file"}}
  \cup UNION {{stack[i].srcLocation + Len(stack[i].opInfo) + k :
                  k \in {j \in DOMAIN stack[i].successors :
                            stack[i].successors[j] = b}} :
                 i \in {j \in DOMAIN stack : stack[j].kind = "op"}}

\* The diagnostics popSSANameScope emits for the forward references fr.
UndefinedBlockDiags(fr) ==
  LET locs == Ascending({e.loc : e \in fr})
  IN [i \in DOMAIN locs |->
        [loc |-> locs[i], msg |-> "reference to an undefined block", note |-> 0]]

\* C6: a forward-declared block is recorded under the location of its first
\* use; when the scope of a region, or of the top level, is popped with
\* forward-declared blocks left, the parse fails with one "reference to an
\* undefined block" at the first use of each; with none left the region
\* parses successfully.
C6_UndefinedBlock ==
  /\ [](status = "parsing" /\ grammar = "blocks" =>
          \A k \in DOMAIN forwardRef : \A e \in forwardRef[k] :
             /\ SuccessorUseLocs(e.block) # {}
             /\ \A u \in SuccessorUseLocs(e.block) : e.loc <= u
             /\ e.loc \in SuccessorUseLocs(e.block))
  /\ [][/\ EndRegion =>
             IF CurrentForwardRef # {}
             THEN status' = "failed" /\ NewDiags = UndefinedBlockDiags(CurrentForwardRef)
             ELSE status' = "parsing" /\ NewDiags = <<>>
                  /\ stack' = SubSeq(stack, 1, Len(stack) - 1)
        /\ EndOfFile /\ forwardRefPlaceholders = {} /\ deferredLocsReferences = <<>> =>
             IF CurrentForwardRef # {}
             THEN status' = "failed" /\ NewDiags = UndefinedBlockDiags(CurrentForwardRef)
             ELSE NewDiags = <<>>]_vars

\* The '}' of a region was reached with a label referenced in it and not
\* defined, and the parse failed at the reference.
C6_Witness ==
  /\ status = "failed" /\ diags # <<>>
  /\ LastDiag.msg = "reference to an undefined block"
  /\ InBlock
  /\ \E l \in Labels : CurrentBlocksByName[l].loc = LastDiag.loc
  /\ \E o \in DOMAIN ops : ops[o].successors # <<>>

\* ---- C7
\* C7: a label whose block is defined already is rejected with
\* "redefinition of block"; the definition of a forward-declared label takes
\* the block out of the forward references and parses that block; the
\* definition of a new label registers a block created for it.
C7_BlockDefinition ==
  [][\A l \in Labels :
       Defines(l) =>
         LET prev == CurrentBlocksByName[l]
             now == blocksByName'[Len(blocksByName)][l]
             isFwd == \E e \in CurrentForwardRef : e.block = prev.block
         IN IF prev.block # 0 /\ ~isFwd
            THEN /\ status' = "failed"
                 /\ NewDiags = <<[loc |-> pos, msg |-> "redefinition of block", note |-> 0]>>
                 /\ Len(blocks') = Len(blocks)
                 /\ now.block = prev.block
            ELSE IF prev.block # 0
            THEN /\ forwardRef'[Len(forwardRef)]
                      = {e \in CurrentForwardRef : e.block # prev.block}
                 /\ now.block = prev.block
                 /\ Len(blocks') = Len(blocks)
                 /\ stack'[Len(stack')].block = prev.block
            ELSE /\ Len(blocks') = Len(blocks) + 1
                 /\ now.block = Len(blocks')
                 /\ stack'[Len(stack')].block = now.block
                 /\ forwardRef' = forwardRef]_vars

\* A label defined twice in a region has been rejected.
C7_Witness ==
  /\ status = "failed" /\ diags # <<>>
  /\ LastDiag.msg = "redefinition of block"
  /\ \E l \in Labels :
       /\ CurrentBlocksByName[l].loc = LastDiag.loc
       /\ CurrentBlocksByName[l].block # 0
       /\ CurrentBlocksByName[l].block # stack[Len(stack)].block

\* ---- C8
\* The values the names of the current isolated scope are bound to.
BoundValues(s) ==
  UNION {{s.isolatedNameScopes[Len(s.isolatedNameScopes)].values[n][i].value :
            i \in DOMAIN s.isolatedNameScopes[Len(s.isolatedNameScopes)].values[n]} :
           n \in Names}

\* C8: parseOperation, on a text that fits in the input, with a result-id
\* list succeeds only when the operation created has as many results as the
\* sizes of the groups sum to, and then binds each name to its result; a
\* group of size 0 fails before an operation is created; an operation with
\* no results or with another number of results fails at the first result
\* id, and none of the names is bound to a result.
C8_ResultCount ==
  status = "parsing" /\ (AtTopLevel \/ InBlock) =>
    \A resultIDs \in ResultIDLists \ {<<>>} :
    \A operands \in {u \in UseLists : Len(resultIDs) + Len(u) + 1 <= Remaining} :
      \A inputs \in InputTypeLists(Len(operands)),
         results \in {[i \in 1..k |-> ty] :
                        k \in 0..(numExpectedResults(resultIDs) + 1), ty \in Types} :
        LET r == parseOperation(Cur, [resultIDs |-> resultIDs, operands |-> operands,
                                      successors |-> <<>>, terminator |-> TRUE,
                                      inputs |-> inputs, results |-> results,
                                      loc |-> "none"])
            created == Len(r.ops) = Len(ops) + 1
            opResults == IF created THEN r.ops[Len(r.ops)].results ELSE <<>>
            names == resultNames([i \in DOMAIN resultIDs |->
                                    [name |-> resultIDs[i].name,
                                     num |-> resultIDs[i].num, loc |-> pos + i - 1]])
            last == r.diags[Len(r.diags)]
        IN /\ (\E i \in DOMAIN resultIDs : resultIDs[i].num = 0) =>
                /\ r.status = "failed" /\ ~created
                /\ last.msg = "expected named operation to have at least 1 result"
                /\ r.isolatedNameScopes = isolatedNameScopes
           /\ created /\ Len(results) # numExpectedResults(resultIDs) =>
                /\ r.status = "failed"
                /\ last = [loc |-> pos, note |-> 0,
                            msg |-> IF results = <<>>
                                    THEN "cannot name an operation with no results"
                                    ELSE "operation defines results but was provided to bind"]
                /\ BoundValues(r) \cap Range(opResults) = {}
           /\ r.status = "parsing" =>
                /\ created /\ Len(opResults) = numExpectedResults(resultIDs)
                /\ \A k \in DOMAIN names :
                     r.isolatedNameScopes[Len(r.isolatedNameScopes)]
                        .values[names[k].name][names[k].number + 1]
                     = [value |-> opResults[k], loc |-> names[k].location]

\* An operation with two result names for one result has been rejected with
\* neither name bound.
C8_Witness ==
  /\ status = "failed" /\ diags # <<>> /\ ops # <<>>
  /\ LastDiag.msg = "operation defines results but was provided to bind"
  /\ ops[Len(ops)].results # <<>>
  /\ BoundValues(Cur) \cap Range(ops[Len(ops)].results) = {}

\* ---- C9
\* The operations and block arguments whose location is the marker of a
\* deferred location alias.
DeferredItems ==
  {[kind |-> "op", id |-> o] : o \in {p \in DOMAIN ops : ops[p].loc.kind = "opaque"}}
  \cup {[kind |-> "arg", id |-> v] : v \in {w \in DOMAIN vals : vals[w].loc.kind = "opaque"}}

DeferredRecord(item) == deferredLocsReferences[getLoc(Cur, item).n]

\* C9: loc(#alias) on an alias that is not defined yet does not fail but
\* records a deferred location, the operation or argument carrying its
\* marker; finalize, past the check of the placeholders, replaces every
\* marker by the location of its alias when the alias has been defined as a
\* location, and otherwise fails with one "operation location alias was
\* never defined", or "expected location, but found" for an alias defined as
\* something else, at the location of a reference.
C9_DeferredLocation ==
  /\ [](status = "parsing" =>
          /\ \A id \in Aliases :
               attributeAliasDefinitions[id] = "none" =>
                 parseLocationAlias(Cur, id, pos)
                 = [s |-> [Cur EXCEPT !.deferredLocsReferences =
                              Append(@, [loc |-> pos, identifier |-> id])],
                    loc |-> OpaqueLoc(Len(deferredLocsReferences) + 1)]
          /\ \A item \in DeferredItems :
               getLoc(Cur, item).n \in DOMAIN deferredLocsReferences)
  /\ [][EndOfFile /\ forwardRefPlaceholders = {} =>
          LET bad == {item \in DeferredItems :
                        attributeAliasDefinitions[DeferredRecord(item).identifier] # "loc"}
          IN IF bad = {}
             THEN /\ \A d \in Range(NewDiags) : d.msg = "reference to an undefined block"
                  /\ \A o \in DOMAIN ops :
                       ops'[o].loc = IF ops[o].loc.kind = "opaque"
                                     THEN AliasLoc(deferredLocsReferences[ops[o].loc.n].identifier)
                                     ELSE ops[o].loc
                  /\ \A v \in DOMAIN vals :
                       vals'[v].loc = IF vals[v].loc.kind = "opaque"
                                      THEN AliasLoc(deferredLocsReferences[vals[v].loc.n].identifier)
                                      ELSE vals[v].loc
             ELSE /\ status' = "failed"
                  /\ \E item \in bad :
                       NewDiags =
                         <<[loc |-> DeferredRecord(item).loc, note |-> 0,
                            msg |-> IF attributeAliasDefinitions[DeferredRecord(item).identifier]
                                       = "none"
                                    THEN "operation location alias was never defined"
                                    ELSE "expected location, but found"]>>]_vars

\* A parse of one operation that recorded a deferred location for it, found
\* the alias defined at the end and gave the operation the location of the
\* alias.
C9_Witness ==
  /\ status = "succeeded"
  /\ deferredLocsReferences # <<>>
  /\ Len(ops) = 1 /\ \A v \in DOMAIN vals : vals[v].kind # "arg"
  /\ ops[1].loc = AliasLoc(deferredLocsReferences[1].identifier)
  /\ ops[1].block = DestBlock

\* ---- C10
\* C10 as stated, on the texts without trailing locations: the "use of
\* undeclared SSA value name" diagnostics of finalize, one for each
\* placeholder left, come in ascending order of the source positions of the
\* first uses of their names.
C10_AscendingFirstUses ==
  status = "failed" /\ grammar \in {"values", "operands"} =>
    \A i, j \in DOMAIN diags :
      i < j /\ diags[i].msg = "use of undeclared SSA value name"
            /\ diags[j].msg = "use of undeclared SSA value name" =>
        \E e, f \in forwardRefPlaceholders :
          /\ e.loc = diags[i].loc /\ f.loc = diags[j].loc /\ e.value # f.value
          /\ \E u \in OperandUseLocs(e.value) :
               \A w \in OperandUseLocs(f.value) : u < w

\* ---- C11
\* The region a step of EndRegion closes.
ClosedRegion == stack[Len(stack)].region

\* C11 as stated: when a scope is popped with forward-declared blocks left,
\* each of these blocks is attached to the nearest enclosing container, the
\* region whose scope is popped.
C11_AttachedToEnclosing ==
  [][EndRegion /\ CurrentForwardRef # {} =>
       \A e \in CurrentForwardRef : blocks'[e.block].region = ClosedRegion]_vars

\* C11, as the code has it: when a scope is popped, at the end of a region
\* or of the input, with forward-declared blocks left, the pop fails with
\* one "reference to an undefined block" for each block, in ascending order
\* of their first uses; before it returns, each of these blocks is appended
\* to the body region of the top-level operation, whatever the region that
\* is closed, and the forward references of the scope are dropped, so that
\* no forward reference holds the block any more.
C11_OrphansAttachedToTopLevel ==
  [][(EndRegion \/ (EndOfFile /\ forwardRefPlaceholders = {}
                               /\ deferredLocsReferences = <<>>))
       /\ CurrentForwardRef # {} =>
       /\ status' = "failed"
       /\ NewDiags = UndefinedBlockDiags(CurrentForwardRef)
       /\ \A i, j \in DOMAIN NewDiags : i < j => NewDiags[i].loc < NewDiags[j].loc
       /\ forwardRef' = SubSeq(forwardRef, 1, Len(forwardRef) - 1)
       /\ \A e \in CurrentForwardRef :
            /\ blocks[e.block].region = 0
            /\ blocks'[e.block].region = TopRegion
            /\ Cardinality({i \in DOMAIN regions'[TopRegion].blocks :
                              regions'[TopRegion].blocks[i] = e.block}) = 1
            /\ \A k \in DOMAIN forwardRef' : \A f \in forwardRef'[k] : f.block # e.block
       /\ Len(regions'[TopRegion].blocks)
            = Len(regions[TopRegion].blocks) + Cardinality(CurrentForwardRef)]_vars

\* The '}' of a nested region was reached with two labels referenced in it
\* and not defined: two diagnostics, and both blocks are in the body of the
\* top-level operation.
C11_Witness ==
  /\ status = "failed" /\ InBlock /\ Len(diags) = 2
  /\ \A i \in DOMAIN diags : diags[i].msg = "reference to an undefined block"
  /\ diags[1].loc < diags[2].loc
  /\ Len(regions[TopRegion].blocks) = 3
  /\ stack[Len(stack)].region # TopRegion

\* ---- C12
\* The operations and arguments finalize visits whose deferred location
\* alias does not resolve to a location.
UnresolvableItems ==
  {item \in DeferredItems \cap Range(walkTopLevelOp(Cur)) :
     attributeAliasDefinitions[DeferredRecord(item).identifier] # "loc"}

\* C12 as stated: when finalize has found names still bound to placeholders
\* and deferred location aliases that do not resolve, it has reported both:
\* the diagnostics hold a value-reference error and a location error.
C12_BothKindsReported ==
  status = "failed" /\ AtTopLevel /\ forwardRefPlaceholders # {}
    /\ UnresolvableItems # {}
    /\ (\E i \in DOMAIN diags : diags[i].msg = "use of undeclared SSA value name") =>
      \E j \in DOMAIN diags :
        diags[j].msg \in {"operation location alias was never defined",
                          "expected location, but found"}

\* ---- C13
\* The calls a step makes.
NewCalls == SubSeq(calls', Len(calls) + 1, Len(calls'))

\* The operations and arguments that carry the marker of a deferred location
\* after a step.
MarkersLeft ==
  {o \in DOMAIN ops' : ops'[o].loc.kind = "opaque"}
  \cup {v \in DOMAIN vals' : vals'[v].loc.kind = "opaque"}

Finalized == Cardinality({i \in DOMAIN calls : calls[i] = "finalize"})

\* C14: finalize is called once, by the step at the end of the input and at
\* its start; before that step it has not been called, and no other step
\* calls it: not the failure of an operation (generic or custom), of an
\* alias definition or of a file metadata dictionary, not an error token,
\* nor the destruction.
C14_FinalizeOnce ==
  /\ [](Finalized <= 1 /\ (status = "parsing" => calls = <<>>))
  /\ [][/\ calls' # calls =>
             EndOfFile /\ calls = <<>> /\ calls'[1] = "finalize"
        /\ AtTopLevel /\ status' \in {"failed", "succeeded"} /\ calls' = calls =>
             ~EndOfFile
        /\ status = "parsing" /\ status' = "failed" /\ calls' = <<>> =>
             \/ ParseOperation \/ BeginOperation \/ BeginRegion \/ NextBlock
             \/ EndRegion \/ EndOperation \/ BeginCustomOperation
             \/ EndCustomOperation \/ ParseAttributeAliasDef
             \/ ParseFileMetadataDictionary \/ UnexpectedEndOfFile
             \/ ErrorToken]_vars

\* The input was an alias definition and an operation: at its end finalize
\* has been called once.
C14_Witness ==
  /\ status = "succeeded" /\ Finalized = 1
  /\ ops # <<>> /\ \E a \in Aliases : attributeAliasDefinitions[a] # "none"

\* ---- C15
\* An operation the caller's block held before the parse.
PriorOp == 0

\* The operations of the body of the top-level operation, in source order.
TopLevelOps == opsInBlock(Cur, TopBlock)

\* C15: while the parse runs and when it has failed, the caller's block is
\* as it was and no operation parsed is in it; the step at the end of the
\* input, on a block that is empty or holds an operation already, leaves
\* the block as it was when finalize fails and otherwise appends to it all
\* the operations parsed at the top level, in the order of the source, and
\* moves them out of the body of the top-level operation.
C15_DestinationBlock ==
  /\ status \in {"parsing", "failed"} =>
       /\ destOps = <<>>
       /\ \A o \in DOMAIN ops : ops[o].block # DestBlock
  /\ status = "succeeded" =>
       \A i, j \in DOMAIN destOps :
         i < j /\ ops[destOps[i]].loc.kind = "file"
               /\ ops[destOps[j]].loc.kind = "file" =>
           ops[destOps[i]].loc.n < ops[destOps[j]].loc.n
  /\ status = "parsing" /\ AtTopLevel =>
       \A prior \in {<<>>, <<PriorOp>>} :
         \A placeholders \in Orderings(forwardRefPlaceholders),
            order \in Orderings(CurrentForwardRef),
            config \in Configs, verified \in BOOLEAN :
           LET r == parseEof([Cur EXCEPT !.destOps = prior], placeholders, order,
                             config, verified)
           IN /\ r.status \in {"failed", "succeeded"}
              /\ r.status = "failed" =>
                   /\ r.destOps = prior
                   /\ \A o \in DOMAIN r.ops : r.ops[o].block # DestBlock
              /\ r.status = "succeeded" =>
                   /\ r.destOps = prior \o TopLevelOps
                   /\ \A o \in DOMAIN r.ops :
                        r.ops[o].block = DestBlock <=> ops[o].block = TopBlock
                   /\ opsInBlock(r, TopBlock) = <<>>

\* A parse of two operations has succeeded and both are in the caller's
\* block, in the order of the source.
C15_Witness ==
  /\ status = "succeeded" /\ Len(destOps) >= 2
  /\ \A i \in DOMAIN destOps : ops[destOps[i]].block = DestBlock
  /\ ops[destOps[1]].loc.kind = "file" /\ ops[destOps[2]].loc.kind = "file"
  /\ ops[destOps[1]].loc.n < ops[destOps[2]].loc.n

\* ---- C16
\* The finalized graph: the operations in the caller's block with the
\* blocks, operations and values nested in them.
GraphBlocks ==
  UNION {blockTree(Cur, b) :
           b \in UNION {Range(regions[r].blocks) :
                          r \in UNION {Range(ops[o].regions) : o \in Range(destOps)}}}

GraphOps == Range(destOps) \cup {o \in DOMAIN ops : ops[o].block \in GraphBlocks}

GraphValues ==
  UNION {Range(ops[o].results) : o \in GraphOps}
  \cup UNION {Range(blocks[b].args) : b \in GraphBlocks}

GraphNodes ==
  {[kind |-> "op", id |-> o] : o \in GraphOps}
  \cup {[kind |-> "block", id |-> b] : b \in GraphBlocks}
  \cup {[kind |-> "value", id |-> v] : v \in GraphValues}

AllNodes ==
  {[kind |-> "op", id |-> o] : o \in DOMAIN ops}
  \cup {[kind |-> "block", id |-> b] : b \in DOMAIN blocks}
  \cup {[kind |-> "value", id |-> v] : v \in DOMAIN vals}

\* C16: on every way out of the parse - success, a failure at the top
\* level, inside an operation, a region or a block, a failure of finalize -
\* no node is deleted while an operation that is not deleted with it still
\* uses one of its values or the block, and none is deleted twice; when the
\* parser and the top-level operation are gone, every operation, block and
\* value created that is not in the finalized graph has been deleted, the
\* finalized graph has not, and no operation left uses a deleted node.
C16_NoDanglingUse ==
  /\ dangling = {}
  /\ status # "destroyed" => freed = {} /\ dropped = {}
  /\ status = "destroyed" =>
       /\ freed = AllNodes \ GraphNodes
       /\ usesOf(Cur, liveOps(Cur), {n.id : n \in {m \in freed : m.kind = "value"}},
                 {n.id : n \in {m \in freed : m.kind = "block"}}) = {}
       /\ \A e \in dropped : [kind |-> e.kind, id |-> e.to] \in freed
       /\ destOps = <<>> => freed = AllNodes

\* A failure inside a region has deleted a block whose operation defined a
\* value that an operation outside of the region used: the use was removed.
C16_Witness ==
  /\ status = "destroyed" /\ dangling = {}
  /\ \E e \in dropped :
       /\ e.kind = "value" /\ vals[e.to].kind = "result"
       /\ ops[e.from].block = TopBlock
       /\ \E o \in DOMAIN ops : e.to \in Range(ops[o].results) /\ ops[o].block # TopBlock

\* ---- C17
\* The binding of (name, number) in the isolated scope at level k.
BindingAt(k, name, number) ==
  LET entries == isolatedNameScopes[k].values[name]
  IN IF number < Len(entries) THEN entries[number + 1] ELSE NullDef

\* The values (name, number) is bound to outside of the current isolated
\* scope.
OuterValues(name, number) ==
  {BindingAt(k, name, number).value : k \in 1..(Len(isolatedNameScopes) - 1)} \ {0}

\* The names defined in the innermost scope of the current isolated scope.
InnermostDefinitions ==
  LET scopes == isolatedNameScopes[Len(isolatedNameScopes)].definitionsPerScope
  IN scopes[Len(scopes)]

\* C17: inside a region parsed as an isolated scope, a name bound only
\* outside of the region resolves to a new placeholder, never to the outer
\* value, and its definition is no redefinition; inside a region parsed as
\* a nested scope, a name bound in an enclosing scope of the same isolated
\* scope resolves to the value it is bound to there.
C17_IsolatedBoundary ==
  status = "parsing" =>
    \A name \in Names, number \in 0..1 :
      LET useInfo == [name |-> name, number |-> number, location |-> pos]
          b == Binding(name, number)
          isolated == beginRegion(Cur, <<>>, TRUE, "none", <<>>)
          nested == beginRegion(Cur, <<>>, FALSE, "none", <<>>)
          inside == [name |-> name, number |-> number, location |-> pos + 1]
      IN /\ InOperation /\ Remaining >= 1 /\ b.value # 0 =>
              /\ \A type \in Types :
                   LET r == resolveSSAUse(isolated, inside, type)
                   IN /\ r.s.status = "parsing"
                      /\ r.value = Len(vals) + 1 /\ r.value # b.value
                      /\ r.s.vals[r.value].kind = "placeholder"
              /\ \A value \in DOMAIN vals :
                   addDefinition(isolated, inside, value).status = "parsing"
              /\ resolveSSAUse(nested, inside, vals[b.value].type)
                 = [s |-> nested, value |-> b.value]
         /\ OuterValues(name, number) # {} /\ Binding(name, 0).value = 0 =>
              /\ \A type \in Types :
                   LET r == resolveSSAUse(Cur, useInfo, type)
                   IN /\ r.s.status = "parsing"
                      /\ r.value = Len(vals) + 1
                      /\ r.value \notin OuterValues(name, number)
                      /\ r.s.vals[r.value].kind = "placeholder"
                      /\ r.s.forwardRefPlaceholders
                           = forwardRefPlaceholders \cup {[value |-> r.value, loc |-> pos]}
                      /\ \A k \in 1..(Len(isolatedNameScopes) - 1) :
                           r.s.isolatedNameScopes[k] = isolatedNameScopes[k]
              /\ \A value \in DOMAIN vals :
                   LET d == addDefinition(Cur, useInfo, value)
                   IN /\ d.status = "parsing" /\ d.diags = diags
                      /\ d.isolatedNameScopes[Len(isolatedNameScopes)]
                            .values[name][number + 1]
                         = [value |-> value, loc |-> pos]
                      /\ \A k \in 1..(Len(isolatedNameScopes) - 1) :
                           d.isolatedNameScopes[k] = isolatedNameScopes[k]
         /\ b.value # 0 /\ name \notin InnermostDefinitions
              /\ Len(isolatedNameScopes[Len(isolatedNameScopes)].definitionsPerScope) >= 2 =>
              resolveSSAUse(Cur, useInfo, vals[b.value].type)
              = [s |-> Cur, value |-> b.value]

\* Inside a region parsed as an isolated scope, a name that is defined
\* outside of the region has been used: it is bound to a placeholder there
\* and still to its value outside.
C17_Witness ==
  /\ status = "parsing" /\ Len(isolatedNameScopes) = 2
  /\ \E name \in Names :
       /\ BindingAt(1, name, 0).value # 0
       /\ vals[BindingAt(1, name, 0).value].kind = "result"
       /\ Binding(name, 0).value # 0
       /\ Binding(name, 0) \in forwardRefPlaceholders
       /\ Uses(Binding(name, 0).value) # {}

\* ---- C18
\* The result numbers of the uses the properties of resolveSSAUse range over.
ResultNumbers == 0..2

\* The name has been defined by a value that is no placeholder.
IsDefined(name) ==
  Binding(name, 0).value # 0 /\ ~isForwardRefPlaceholder(Cur, Binding(name, 0).value)

\* C18: resolveSSAUse on a (name, number) bound to a value of the type asked
\* for returns this value and changes nothing; on a (name, number) that is
\* not bound, of a name that has not been defined, it creates one
\* placeholder of the type asked for, binds it with the location of the
\* use and adds it to forwardRefPlaceholders, and a second resolveSSAUse of
\* the same (name, number) and type, at a later use, returns the same
\* placeholder and changes nothing.
C18_ResolveBoundOrCreate ==
  status = "parsing" =>
    \A name \in Names, number \in ResultNumbers, type \in Types :
      LET useInfo == [name |-> name, number |-> number, location |-> pos]
          later == [name |-> name, number |-> number, location |-> pos + 1]
          b == Binding(name, number)
          r == resolveSSAUse(Cur, useInfo, type)
      IN /\ b.value # 0 /\ vals[b.value].type = type =>
              r = [s |-> Cur, value |-> b.value]
         /\ b.value = 0 /\ ~IsDefined(name) =>
              /\ r.value = Len(vals) + 1
              /\ r.s.status = "parsing" /\ r.s.diags = diags
              /\ r.s.vals = Append(vals, [type |-> type, kind |-> "placeholder",
                                           loc |-> FileLoc(pos)])
              /\ r.s.forwardRefPlaceholders
                   = forwardRefPlaceholders \cup {[value |-> r.value, loc |-> pos]}
              /\ r.s.forwardRefOps = forwardRefOps \cup {r.value}
              /\ r.s.isolatedNameScopes[Len(isolatedNameScopes)].values[name][number + 1]
                   = [value |-> r.value, loc |-> pos]
              /\ \A other \in Names, k \in ResultNumbers :
                   <<other, k>> # <<name, number>>
                   /\ k < Len(isolatedNameScopes[Len(isolatedNameScopes)].values[other]) =>
                     r.s.isolatedNameScopes[Len(isolatedNameScopes)].values[other][k + 1]
                     = Binding(other, k)
              /\ resolveSSAUse(r.s, later, type) = [s |-> r.s, value |-> r.value]

\* A name that is not defined has been used twice: both operands are the
\* one placeholder, bound with the location of the use resolved first.
C18_Witness ==
  /\ status = "parsing"
  /\ \E name \in Names :
       LET b == Binding(name, 0)
       IN /\ b \in forwardRefPlaceholders
          /\ Cardinality(OperandUseLocs(b.value)) >= 2
          /\ Cardinality({e \in forwardRefPlaceholders : e.loc = b.loc}) = 1
          /\ Cardinality(forwardRefPlaceholders) = 1

\* ---- C19
\* C19: resolveSSAUse on a (name, number) bound, to a value or to a
\* placeholder, with another type than the type asked for returns no value
\* and fails with "use of value expects different type than prior uses" at
\* the use, with a note at the location of the binding; it creates no
\* placeholder and changes no binding, nor anything else.
C19_TypeMismatch ==
  status = "parsing" =>
    \A name \in Names, number \in ResultNumbers, type \in Types :
      LET useInfo == [name |-> name, number |-> number, location |-> pos]
          b == Binding(name, number)
      IN b.value # 0 /\ vals[b.value].type # type =>
           resolveSSAUse(Cur, useInfo, type)
           = [s |-> [Cur EXCEPT
                       !.status = "failed",
                       !.diags = Append(@,
                          [loc |-> pos, note |-> b.loc,
                           msg |-> "use of value expects different type than prior uses"])],
              value |-> 0]

\* A use of a name with another type than its placeholder has been rejected
\* with the note at the binding of the placeholder, which is still bound.
C19_Witness ==
  /\ status = "failed" /\ diags # <<>>
  /\ LastDiag.msg = "use of value expects different type than prior uses"
  /\ \E b \in Bindings :
       /\ b \in forwardRefPlaceholders
       /\ b.loc = LastDiag.note /\ b.loc < LastDiag.loc

\* ---- C20
\* C20: resolveSSAUse on a (name, number) of a name defined by a value that
\* is no placeholder, of fewer results than number + 1, returns no value and
\* fails with "reference to invalid result number" at the use; no
\* placeholder is created and (name, number) stays unbound.
C20_InvalidResultNumber ==
  status = "parsing" =>
    \A name \in Names, number \in ResultNumbers, type \in Types :
      LET useInfo == [name |-> name, number |-> number, location |-> pos]
          r == resolveSSAUse(Cur, useInfo, type)
      IN IsDefined(name) /\ Binding(name, number).value = 0 =>
           /\ r.value = 0 /\ r.s.status = "failed"
           /\ r.s.diags = Append(diags, [loc |-> pos, note |-> 0,
                                          msg |-> "reference to invalid result number"])
           /\ r.s.vals = vals
           /\ r.s.forwardRefPlaceholders = forwardRefPlaceholders
           /\ r.s.forwardRefOps = forwardRefOps
           /\ r.s.isolatedNameScopes[Len(isolatedNameScopes)].values[name][number + 1]
                = NullDef
           /\ \A k \in 0..(number - 1) :
                r.s.isolatedNameScopes[Len(isolatedNameScopes)].values[name][k + 1]
                = Binding(name, k)

\* A use of result 1 of a name defined with one result has been rejected
\* and no placeholder was created.
C20_Witness ==
  /\ status = "failed" /\ diags # <<>>
  /\ LastDiag.msg = "reference to invalid result number"
  /\ forwardRefOps = {}
  /\ \E name \in Names :
       /\ IsDefined(name) /\ vals[Binding(name, 0).value].kind = "result"
       /\ Binding(name, 1) = NullDef

\* ---- C21
\* The values bound, under any name and number, in any isolated scope.
AllBoundValues ==
  UNION {UNION {{isolatedNameScopes[k].values[n][i].value :
                   i \in DOMAIN isolatedNameScopes[k].values[n]} : n \in Names} :
           k \in DOMAIN isolatedNameScopes}

\* The placeholders that a definition has replaced.
ReplacedPlaceholders ==
  {v \in forwardRefOps : ~isForwardRefPlaceholder(Cur, v)}

SuccessorInputs ==
  {in \in [resultIDs : {r \in ResultIDLists : \A i \in DOMAIN r : r[i].num >= 1},
            operands : UseLists, successors : SuccessorLists \ {<<>>},
            terminator : BOOLEAN] :
     Len(in.resultIDs) + Len(in.operands) + Len(in.successors) + 1 <= Remaining}

\* C22: where an operation may start, a generic operation with a successor
\* list, on a name that is not statically known to be a terminator, fails
\* at the '[' with "successors in non-terminator" and neither creates a
\* block nor changes the labels or the forward references; on a name
\* known to be a terminator the list is accepted, with one block per
\* label; and in every state the operations that have successors are
\* those of such a name.
C22_SuccessorsOnTerminator ==
  /\ status = "parsing" /\ (AtTopLevel \/ InBlock) =>
       \A in \in SuccessorInputs :
         LET r == beginOperation(Cur, in)
             at == pos + Len(in.resultIDs) + Len(in.operands) + 1
         IN IF ~in.terminator
            THEN /\ r.status = "failed"
                 /\ r.diags = Append(diags, [loc |-> at, note |-> 0,
                                              msg |-> "successors in non-terminator"])
                 /\ r.blocks = blocks /\ r.blocksByName = blocksByName
                 /\ r.forwardRef = forwardRef
                 /\ TopFrame(r).successors = <<>>
            ELSE /\ r.status = "parsing" /\ r.diags = diags
                 /\ Len(TopFrame(r).successors) = Len(in.successors)
                 /\ \A k \in DOMAIN in.successors :
                      TopFrame(r).successors[k]
                      = r.blocksByName[Len(blocksByName)][in.successors[k]].block
  /\ status = "failed" /\ diags # <<>>
       /\ LastDiag.msg = "successors in non-terminator" =>
         /\ InOperation /\ stack[Len(stack)].successors = <<>>
         /\ \A e \in CurrentForwardRef : e.loc < stack[Len(stack)].srcLocation

\* A successor list on an operation that is no terminator, with a label
\* that no block has, has been rejected: the label has no block still.
C22_Witness ==
  /\ status = "failed" /\ diags # <<>>
  /\ LastDiag.msg = "successors in non-terminator"
  /\ InOperation /\ LastDiag.loc = stack[Len(stack)].srcLocation + 1
  /\ \A l \in Labels : CurrentBlocksByName[l].block = 0
  /\ CurrentForwardRef = {} /\ Len(blocks) = 1

\* ---- C23
\* C23: a generic operation the function type of which has another number
\* of inputs than the operation has operand names fails, at the type, with
\* a diagnostic of both numbers - both as the last step of an operation
\* without regions and after the region list - and resolves none of its
\* operand names: no value is created, no placeholder is remembered and
\* no name is bound.
C23_OperandCount ==
  status = "parsing" =>
    \A n \in 0..3 : \A inputs \in [1..n -> {"i32"}] :
      LET rest == [inputs |-> inputs, results |-> <<>>, loc |-> "none"]
          failed(r, opInfo, at) ==
            /\ r.status = "failed"
            /\ r.diags = Append(diags,
                 [loc |-> at, note |-> 0,
                  msg |-> operandCountMessage(Len(opInfo), n)])
            /\ r.diags[Len(r.diags)].msg
                 \in {"expected 0 operand types but had 1",
                      "expected 1 operand type but had 0",
                      "expected 1 operand type but had 2",
                      "expected 2 operand types but had 0",
                      "expected 2 operand types but had 1",
                      "expected 2 operand types but had 3",
                      "expected 0 operand types but had 2",
                      "expected 0 operand types but had 3",
                      "expected 1 operand type but had 3"}
            /\ r.vals = vals /\ r.ops = ops
            /\ r.forwardRefPlaceholders = forwardRefPlaceholders
            /\ r.forwardRefOps = forwardRefOps
            /\ r.isolatedNameScopes = isolatedNameScopes
      IN /\ InOperation /\ Len(stack[Len(stack)].opInfo) # n =>
              failed(endOperation(Cur, rest), stack[Len(stack)].opInfo, pos)
         /\ AtTopLevel \/ InBlock =>
              \A operands \in {u \in UseLists : Len(u) # n /\ Len(u) + 1 <= Remaining} :
                failed(parseOperation(Cur, [resultIDs |-> <<>>, operands |-> operands,
                                            successors |-> <<>>, terminator |-> TRUE]
                                           @@ rest),
                       operands, pos + Len(operands) + 1)

\* An operation of two operand names that nothing defines, with a function
\* type of one input, has been rejected: no placeholder exists.
C23_Witness ==
  /\ status = "failed" /\ diags # <<>>
  /\ LastDiag.msg = "expected 2 operand types but had 1"
  /\ InOperation /\ Len(stack[Len(stack)].opInfo) = 2
  /\ forwardRefOps = {} /\ \A n \in Names : Binding(n, 0) = NullDef

C25_NamedEntryArguments ==
  /\ status = "parsing" /\ InOperation /\ stack[Len(stack)].custom =>
       \A arguments \in {q \in EntryArgLists : q # <<>> /\ q[1].name # ""},
          isIsolatedNameScope \in BOOLEAN, label \in {"none", "bb1"} :
         LET n == Len(arguments)
             r == beginRegion(Cur, arguments, isIsolatedNameScope, label, <<>>)
             entry == TopFrame(r).owningBlock
             inUse == {i \in 1..n : ~isIsolatedNameScope
                                     /\ Binding(arguments[i].name, 0).value # 0}
         IN IF label # "none"
            THEN /\ r.status = "failed"
                 /\ r.diags = Append(diags,
                      [loc |-> pos + n + 1, note |-> 0,
                       msg |-> "invalid block name in region with named arguments"])
                 /\ r.vals = vals /\ r.blocks[entry].args = <<>>
            ELSE IF inUse # {}
            THEN /\ r.status = "failed"
                 /\ r.diags[Len(r.diags)].msg = "region entry argument is already in use"
                 /\ \E i \in inUse :
                      /\ r.diags[Len(r.diags)].loc = pos + i - 1
                      /\ \A j \in inUse : i <= j
            ELSE /\ r.status = "parsing" /\ r.diags = diags
                 /\ r.ops = ops /\ r.insertBlock = entry
                 /\ Len(r.blocks[entry].args) = n
                 /\ \A i \in 1..n :
                      LET arg == r.blocks[entry].args[i]
                      IN /\ arg = Len(vals) + i
                         /\ r.vals[arg] = [type |-> arguments[i].type, kind |-> "arg",
                                            loc |-> FileLoc(pos + i - 1)]
                         /\ r.isolatedNameScopes[Len(r.isolatedNameScopes)]
                               .values[arguments[i].name][1]
                            = [value |-> arg, loc |-> pos + i - 1]
  /\ \A k \in DOMAIN stack :
       stack[k].kind = "region" /\ blocks[stack[k].owningBlock].args # <<>>
         /\ vals[blocks[stack[k].owningBlock].args[1]].loc.kind = "file"
         /\ vals[blocks[stack[k].owningBlock].args[1]].loc.n < stack[k].startLoc =>
         /\ Len(blocks[stack[k].owningBlock].args) = stack[k].numEntryArgs
         /\ \A i \in DOMAIN blocks[stack[k].owningBlock].args :
              vals[blocks[stack[k].owningBlock].args[i]].loc.n
              = stack[k].startLoc - stack[k].numEntryArgs + i - 1

\* In the region of a custom operation with two named arguments, an
\* operation of the entry block has used the first of them.
C25_Witness ==
  /\ status = "parsing" /\ InBlock
  /\ stack[Len(stack)].numEntryArgs = 2
  /\ Len(blocks[stack[Len(stack)].owningBlock].args) = 2
  /\ \E o \in DOMAIN ops :
       /\ ops[o].block = stack[Len(stack)].owningBlock
       /\ blocks[stack[Len(stack)].owningBlock].args[1] \in Range(ops[o].operands)

\* ---- C26
\* C26 as stated: the '}' of a nested region that is no isolated scope
\* leaves every (name, number) that is bound to a placeholder bound to it,
\* so that a later definition in an enclosing scope replaces the
\* placeholder.
C26_PlaceholderSurvivesPop ==
  [][EndRegion /\ status' = "parsing"
       /\ Len(isolatedNameScopes') = Len(isolatedNameScopes) =>
       \A name \in Names, number \in 0..1 :
         Binding(name, number) \in forwardRefPlaceholders =>
           /\ number < Len(isolatedNameScopes'[Len(isolatedNameScopes)].values[name])
           /\ isolatedNameScopes'[Len(isolatedNameScopes)].values[name][number + 1]
              = Binding(name, number)]_vars

C29_WrongTokenLocation ==
  status = "failed" /\ grammar = "text" =>
    LET originalLoc == IF curToken.kind = "eof" THEN curToken.loc - 1
                       ELSE curToken.loc
        newLines == {i \in 1..originalLoc : buffer[i] = "\n"}
        lineStart == IF newLines = {} THEN 0
                     ELSE CHOOSE i \in newLines : \A j \in newLines : j <= i
        startsLine == \A i \in (lineStart + 1)..originalLoc : buffer[i] = " "
        inComment(i) ==
          \E c \in 1..i : /\ c < Len(buffer)
                          /\ buffer[c] = "/" /\ buffer[c + 1] = "/"
                          /\ \A k \in c..(i - 1) : buffer[k] # "\n"
        content == {i \in 1..lineStart :
                      buffer[i] \notin {" ", "\n"} /\ ~inComment(i)}
        expected == IF ~startsLine \/ content = {} THEN originalLoc
                    ELSE CHOOSE i \in content : \A j \in content : j <= i
    IN diags = <<[loc |-> expected, msg |-> "expected token", note |-> 0]>>


\* C30: whenever the parser of a custom operation returns failure, or returns
\* success after an error was emitted through the parser, or returns success
\* with an attribute name that occurs twice, parseCustomOperation fails the
\* parse as any local error does and creates no operation: no result name is
\* bound and the insertion block is left as it was; for the repeated
\* attribute the parser itself emits the diagnostic, at the operation's name,
\* and for the other two it adds no diagnostic of its own.
C30_CallbackFailureFatal ==
  status = "parsing" /\ InOperation /\ stack[Len(stack)].custom =>
    \A callback \in CallbackResults,
       inputs \in [1..Len(stack[Len(stack)].opInfo) -> Types],
       results \in ResultTypeLists(stack[Len(stack)].resultIDs) :
      LET frame == stack[Len(stack)]
          s == parseCustomOperation(Cur, callback,
                 [inputs |-> inputs, results |-> results, loc |-> "none"])
          resolved == resolveOperands(Cur, frame.opInfo, inputs, <<>>).s
          duplicate == \E i, j \in DOMAIN callback.attributes :
                          i # j /\ callback.attributes[i] = callback.attributes[j]
          own == SubSeq(s.diags, Len(resolved.diags) + 1, Len(s.diags))
          emitted == IF callback.emitted
                     THEN <<[loc |-> pos, note |-> 0, msg |-> "custom op error"]>>
                     ELSE <<>>
      IN /\ callback.returns = "failure" \/ callback.emitted \/ duplicate =>
              /\ s.status = "failed"
              /\ s.ops = ops
              /\ \A n \in Names : \A k \in 1..Len(s.isolatedNameScopes) :
                    \A e \in Range(s.isolatedNameScopes[k].values[n]) :
                       e.value # 0 => s.vals[e.value].kind # "result"
                                      \/ e.value <= Len(vals)
              /\ s.blocks = blocks
              /\ OK(resolved) =>
                   own = IF callback.returns = "success" /\ duplicate
                         THEN emitted \o
                              <<[loc |-> frame.srcLocation, note |-> 0,
                                 msg |-> "occurs more than once in the attribute list"]>>
                         ELSE emitted
         /\ callback.returns = "success" /\ ~callback.emitted /\ ~duplicate
            /\ OK(resolved) => Len(s.ops) = Len(ops) + 1

C30_Witness ==
  /\ status = "failed"
  /\ grammar = "custom"
  /\ ops = <<>>
  /\ InOperation /\ stack[Len(stack)].custom
  /\ diags # <<>>
  /\ LastDiag.msg = "occurs more than once in the attribute list"


\* C31: for a result-id list with the group sizes k_1..k_n, a parseOperation
\* that succeeds has bound (name_g, j), for 0 <= j < k_g, to the result with
\* the number k_1 + ... + k_(g-1) + j of the operation; getResultName gives
\* (name_g, j) for that number and for no other, and the empty name with the
\* invalid number for every number from the total on; getNumResults is the
\* sum of the k_g.
C31_ResultGroups ==
  status = "parsing" /\ (AtTopLevel \/ InBlock) =>
    \A resultIDs \in {q \in ResultIDLists : q # <<>> /\ Len(q) + 1 <= Remaining},
       ty \in Types :
      LET total == SumSeq([g \in DOMAIN resultIDs |-> resultIDs[g].num])
          first(g) == SumSeq([h \in 1..(g - 1) |-> resultIDs[h].num])
          r == parseOperation(Cur, [resultIDs |-> resultIDs, operands |-> <<>>,
                                    successors |-> <<>>, terminator |-> TRUE,
                                    inputs |-> <<>>,
                                    results |-> [i \in 1..total |-> ty],
                                    loc |-> "none"])
          values(name) == r.isolatedNameScopes[Len(r.isolatedNameScopes)].values[name]
      IN /\ getNumResults(resultIDs) = total
         /\ \A n \in total..(total + 2) :
               getResultName(resultIDs, n) = [name |-> "", number |-> -1]
         /\ r.status = "parsing" =>
              \A g \in DOMAIN resultIDs : \A j \in 0..(resultIDs[g].num - 1) :
                 /\ values(resultIDs[g].name)[j + 1].value
                      = r.ops[Len(r.ops)].results[first(g) + j + 1]
                 /\ \A n \in 0..(total - 1) :
                      getResultName(resultIDs, n)
                        = [name |-> resultIDs[g].name, number |-> j]
                      <=> n = first(g) + j

\* An operation with the result ids %a:2, %b has been parsed: %b is its
\* third result.
C31_Witness ==
  /\ status = "parsing" /\ ops # <<>>
  /\ Len(ops[Len(ops)].results) = 3
  /\ Binding("a", 1).value = ops[Len(ops)].results[2]
  /\ Binding("b", 0).value = ops[Len(ops)].results[3]


\* C32: a generic operation resolves its operand names when its successor
\* list, its regions, its attribute dictionary and its type have been parsed,
\* not before.  The step that parses the operand list leaves the name tables,
\* the placeholders and the values as they are, so the operand list has no
\* effect on the uses inside the operation's regions; when the operands are
\* resolved, after the regions, an operand whose name is not bound becomes a
\* new placeholder at the operand's location, and no operand resolves to a
\* value defined inside the operation's own regions.
C32_OperandsResolvedLast ==
  /\ [][Len(stack') = Len(stack) + 1 /\ status' = "parsing" /\ BeginOperation =>
          /\ isolatedNameScopes' = isolatedNameScopes
          /\ forwardRefPlaceholders' = forwardRefPlaceholders
          /\ vals' = vals]_vars
  /\ [](status = "parsing" /\ InOperation /\ ~stack[Len(stack)].custom =>
          LET frame == stack[Len(stack)]
              own == UNION {blockTree(Cur, b) :
                              b \in UNION {Range(regions[r].blocks) :
                                             r \in Range(frame.regions)}}
              inside == UNION {Range(blocks[b].args) : b \in own}
                        \cup UNION {Range(ops[o].results) :
                                      o \in {p \in DOMAIN ops : ops[p].block \in own}}
              first(i) == CHOOSE j \in 1..i :
                            /\ frame.opInfo[j].name = frame.opInfo[i].name
                            /\ frame.opInfo[j].number = frame.opInfo[i].number
                            /\ \A k \in 1..(j - 1) :
                                 frame.opInfo[k].name # frame.opInfo[j].name
                                 \/ frame.opInfo[k].number # frame.opInfo[j].number
          IN \A inputs \in [1..Len(frame.opInfo) -> Types] :
               LET r == resolveOperands(Cur, frame.opInfo, inputs, <<>>)
               IN OK(r.s) =>
                    \A i \in DOMAIN r.operands :
                      /\ r.operands[i] \notin inside
                      /\ getSSAValueEntry(Cur, frame.opInfo[i].name) = <<>> =>
                           /\ r.operands[i] > Len(vals)
                           /\ r.s.vals[r.operands[i]].kind = "placeholder"
                           /\ [value |-> r.operands[i],
                               loc |-> frame.opInfo[first(i)].location]
                                \in r.s.forwardRefPlaceholders)

\* An operation has been created whose region holds an operation with a
\* result, and whose operand is a placeholder created after that result and
\* still unresolved: no name is bound to the result inside.
C32_Witness ==
  /\ status = "parsing" /\ ops # <<>>
  /\ LET op == ops[Len(ops)]
     IN /\ op.regions # <<>> /\ op.operands # <<>>
        /\ vals[op.operands[1]].kind = "placeholder"
        /\ \E pl \in forwardRefPlaceholders : pl.value = op.operands[1]
        /\ \E o \in DOMAIN ops :
             /\ ops[o].block \in Range(regions[op.regions[1]].blocks)
             /\ ops[o].results # <<>>
             /\ ops[o].results[1] < op.operands[1]
             /\ ops[o].results[1] \notin AllBoundValues


\* C33 as stated: the '}' of a nested region that is no isolated scope
\* removes every name defined in the region's scope, with all of its result
\* slots, and leaves the entries of the names defined in the enclosing
\* scopes as they were.
C33_NestedPopErasesOwnNames ==
  [][EndRegion /\ status' = "parsing"
       /\ Len(isolatedNameScopes') = Len(isolatedNameScopes) =>
       LET scope == isolatedNameScopes[Len(isolatedNameScopes)]
           d == Len(scope.definitionsPerScope)
           after == isolatedNameScopes'[Len(isolatedNameScopes)]
       IN /\ \A n \in scope.definitionsPerScope[d] : after.values[n] = <<>>
          /\ \A n \in UNION {scope.definitionsPerScope[j] : j \in 1..(d - 1)} :
               after.values[n] = scope.values[n]]_vars


\* C34: a placeholder that is bound in an isolated scope when that scope is
\* popped stays in forwardRefPlaceholders and is bound to no name from then
\* on, whatever is parsed afterwards; a placeholder bound to no name is never
\* bound again nor removed while the parser lives; and the end of the input
\* then fails with "use of undeclared SSA value name" at the placeholder's
\* location, also when the same name has been defined outside the region.
C34_IsolatedPlaceholderLost ==
  /\ [][forwardRefPlaceholders # {} /\ status' # "destroyed" =>
          \A pl \in forwardRefPlaceholders :
             \/ pl.value \notin AllBoundValues
             \/ /\ Len(isolatedNameScopes') < Len(isolatedNameScopes)
                /\ \E n \in Names :
                     \E e \in Range(isolatedNameScopes[Len(isolatedNameScopes)].values[n]) :
                        e.value = pl.value
             => /\ pl \in forwardRefPlaceholders'
                /\ pl.value \notin AllBoundValues']_vars
  /\ [][forwardRefPlaceholders # {} /\ EndOfFile =>
          \A pl \in forwardRefPlaceholders :
             pl.value \notin AllBoundValues =>
               /\ status' = "failed"
               /\ \E i \in DOMAIN NewDiags :
                    NewDiags[i] = [loc |-> pl.loc, note |-> 0,
                                   msg |-> "use of undeclared SSA value name"]]_vars

\* The input has ended in failure on a placeholder that no name is bound
\* to, used inside the region of a custom operation, while the name a is
\* defined after it, outside the region.
C34_Witness ==
  /\ status = "failed" /\ grammar = "custom" /\ calls = <<"finalize">>
  /\ LastDiag.msg = "use of undeclared SSA value name"
  /\ \E pl \in forwardRefPlaceholders :
       /\ pl.value \notin AllBoundValues
       /\ LastDiag.loc = pl.loc
       /\ Binding("a", 0).value # 0
       /\ vals[Binding("a", 0).value].kind = "result"
       /\ Binding("a", 0).loc > pl.loc
       /\ \E o \in DOMAIN ops :
            /\ pl.value \in Range(ops[o].operands)
            /\ ops[o].block # TopBlock


\* C35: parseRegion with named arguments of the caller, no label and no new
\* isolated scope, when the name of an argument is bound already in the
\* current isolated scope, to a value or to the placeholder of an earlier
\* use, fails with "region entry argument is already in use" at the first
\* such argument, with a note at the location of the earlier reference; the
\* binding is left as it was and a placeholder stays a placeholder: it is
\* still in forwardRefPlaceholders and still the operand of its users.
C35_EntryArgumentInUse ==
  status = "parsing" /\ InOperation /\ stack[Len(stack)].custom =>
    \A arguments \in {q \in EntryArgLists : q # <<>> /\ q[1].name # ""} :
      LET r == beginRegion(Cur, arguments, FALSE, "none", <<>>)
          inUse == {i \in DOMAIN arguments : Binding(arguments[i].name, 0).value # 0}
          first == CHOOSE i \in inUse : \A j \in inUse : i <= j
          earlier == Binding(arguments[first].name, 0)
      IN inUse # {} =>
           /\ r.status = "failed"
           /\ r.diags = Append(diags,
                [loc |-> pos + first - 1, note |-> earlier.loc,
                 msg |-> "region entry argument is already in use"])
           /\ r.isolatedNameScopes[Len(r.isolatedNameScopes)]
                 .values[arguments[first].name][1] = earlier
           /\ r.forwardRefPlaceholders = forwardRefPlaceholders
           /\ r.ops = ops

\* A region with a named argument %a has been rejected while %a is bound to
\* the placeholder of an earlier use, which an operation still uses.
C35_Witness ==
  /\ status = "failed" /\ diags # <<>>
  /\ LastDiag.msg = "region entry argument is already in use"
  /\ Binding("a", 0) \in forwardRefPlaceholders
  /\ LastDiag.note = Binding("a", 0).loc
  /\ \E o \in DOMAIN ops : Binding("a", 0).value \in Range(ops[o].operands)


\* C36: in every state reached without a failure blocksByName and forwardRef
\* have the same depth, the total number of nested name scopes that are open
\* over all isolated scopes: one for the top level and one for each region
\* being parsed.  parseRegion pushes one level on each when it starts a body
\* (on the innermost isolated scope, or as the only level of a new one),
\* remembers the insertion point, and on success its '}' takes off exactly
\* the level it has pushed and puts the insertion point back; '{' '}' changes
\* none of them.
C36_ScopeDepthsRestored ==
  /\ [](status \in {"parsing", "succeeded"} =>
          LET now == [k \in DOMAIN isolatedNameScopes |->
                        Len(isolatedNameScopes[k].definitionsPerScope)]
          IN /\ Len(blocksByName) = Len(forwardRef)
             /\ Len(forwardRef) = SumSeq(now)
             /\ \A k \in DOMAIN now : now[k] >= 1
             /\ status = "parsing" => Len(blocksByName) = 1 + Depth)
  /\ [][BeginRegion /\ status' = "parsing" =>
          LET now == [k \in DOMAIN isolatedNameScopes |->
                        Len(isolatedNameScopes[k].definitionsPerScope)]
              after == [k \in DOMAIN isolatedNameScopes' |->
                          Len(isolatedNameScopes'[k].definitionsPerScope)]
          IN /\ Len(stack') = Len(stack) + 1
             /\ stack'[Len(stack')].currentPt = insertBlock
             /\ Len(blocksByName') = Len(blocksByName) + 1
             /\ Len(forwardRef') = Len(forwardRef) + 1
             /\ after \in {Append(now, 1), [now EXCEPT ![Len(now)] = @ + 1]}]_vars
  /\ [][EndRegion /\ status' = "parsing" =>
          LET now == [k \in DOMAIN isolatedNameScopes |->
                        Len(isolatedNameScopes[k].definitionsPerScope)]
              after == [k \in DOMAIN isolatedNameScopes' |->
                          Len(isolatedNameScopes'[k].definitionsPerScope)]
          IN /\ stack' = SubSeq(stack, 1, Len(stack) - 1)
             /\ insertBlock' = stack[Len(stack)].currentPt
             /\ Len(blocksByName') = Len(blocksByName) - 1
             /\ Len(forwardRef') = Len(forwardRef) - 1
             /\ now \in {Append(after, 1), [after EXCEPT ![Len(after)] = @ + 1]}]_vars
  /\ [][EmptyRegion /\ status' = "parsing" =>
          /\ Len(stack') = Len(stack)
          /\ insertBlock' = insertBlock
          /\ blocksByName' = blocksByName /\ forwardRef' = forwardRef
          /\ isolatedNameScopes' = isolatedNameScopes]_vars
  /\ [][status' = "parsing" =>
          \A i \in DOMAIN stack \cap DOMAIN stack' :
             stack[i].kind = "region" =>
               /\ stack'[i].kind = "region"
               /\ stack'[i].currentPt = stack[i].currentPt]_vars

\* The parse has succeeded on an input with a region of two blocks inside a
\* region: at the end every stack is empty and the insertion point is the
\* top-level block again.
C36_Witness ==
  /\ status = "succeeded"
  /\ blocksByName = <<>> /\ forwardRef = <<>> /\ isolatedNameScopes = <<>>
  /\ insertBlock = TopBlock
  /\ \E r \in DOMAIN regions :
       /\ Len(regions[r].blocks) >= 2
       /\ regions[r].op # 0
       /\ ops[regions[r].op].block \notin {TopBlock, DestBlock}


\* C37 as stated: when the parse has failed, for every parseRegionBody that
\* returns the failure the label-map stack is one level deeper than it was
\* when that call was entered.
C37_OneLevelDeeper ==
  status = "failed" =>
    \A k \in DOMAIN stack :
       stack[k].kind = "region" =>
         LET atEntry == 1 + Cardinality({i \in 1..(k - 1) : stack[i].kind = "region"})
         IN Len(blocksByName) = atEntry + 1

\* C37: a parseRegionBody that returns failure has not popped the scope it
\* has pushed, and neither has any parseRegionBody that has failed inside
\* it: the label-map stack and the name-scope stacks are deeper than at its
\* entry by one level for itself and one for each region body in progress
\* inside it; a failure inside popSSANameScope has taken off the entry of
\* forwardRef and nothing else; the failing step does not put the insertion
\* point back to the one saved by a region body in progress.
C37_FailedRegionKeepsScope ==
  /\ [](status = "failed" /\ Depth >= 1 =>
          /\ Len(blocksByName) = 1 + Depth
          /\ SumSeq([k \in DOMAIN isolatedNameScopes |->
                       Len(isolatedNameScopes[k].definitionsPerScope)]) = 1 + Depth
          /\ \A k \in DOMAIN stack :
                stack[k].kind = "region" =>
                  LET atEntry == 1 + Cardinality({i \in 1..(k - 1) : stack[i].kind = "region"})
                      inside == Cardinality({i \in (k + 1)..Len(stack) : stack[i].kind = "region"})
                  IN Len(blocksByName) = atEntry + 1 + inside)
  /\ [][status = "parsing" /\ status' = "failed" /\ Depth' >= 1 =>
          LET inPop == \E i \in DOMAIN NewDiags :
                          NewDiags[i].msg = "reference to an undefined block"
          IN /\ inPop => EndRegion
             /\ Len(forwardRef') = IF inPop THEN Depth' ELSE 1 + Depth'
             /\ inPop => /\ blocksByName' = blocksByName
                          /\ isolatedNameScopes' = isolatedNameScopes
                          /\ forwardRef' = SubSeq(forwardRef, 1, Len(forwardRef) - 1)
                          /\ Len(stack') = Len(stack)
             /\ \A k \in DOMAIN stack' :
                   stack'[k].kind = "region" /\ insertBlock' = stack'[k].currentPt =>
                     insertBlock' = insertBlock]_vars

\* An operation inside a region inside a region has failed: two region
\* bodies return the failure, the label maps and the forward references are
\* three deep, and the insertion point is still in the inner region.
C37_Witness ==
  /\ status = "failed" /\ Depth = 2 /\ InBlock
  /\ Len(blocksByName) = 3 /\ Len(forwardRef) = 3
  /\ insertBlock = stack[Len(stack)].block
  /\ \A k \in DOMAIN stack : stack[k].kind = "region" => insertBlock # stack[k].currentPt


\* C38: when the current token is not the opening delimiter,
\* parseCommaSeparatedList returns failure for each required delimiter
\* (Paren, Square, LessGreater, Braces) and success for each optional one,
\* and in neither case invokes the element callback.
C38_MissingOpeningDelimiter ==
  grammar = "list" /\ listResult = "none" =>
    \A delimiter \in Delimiters :
       LET r == parseCommaSeparatedList(Cur, buffer, delimiter, "")
           current == IF pos <= Len(buffer) THEN buffer[pos] ELSE "eof"
       IN delimiter.kind # "None" /\ current # delimiter.open =>
            /\ r.s.calls = calls
            /\ r.result = IF delimiter.optional THEN "success" ELSE "failure"


\* C39: while the parser exists, each block in the forward-declared set of a
\* scope is mapped by exactly one label of the label map of that scope, with
\* the location the set records for it, has no arguments and no operations,
\* is in no region and is not a block being parsed; the location is the one
\* of the first reference to the label: the entry is made by the reference
\* that finds the label unmapped, and no successor that refers to the block
\* comes before it.  A block leaves the set by its definition in parseBlock
\* or with the whole set in the failing pop of its scope.
C39_ForwardDeclaredBlocks ==
  /\ [](status # "destroyed" =>
          \A k \in DOMAIN forwardRef : \A e \in forwardRef[k] :
             /\ k \in DOMAIN blocksByName
             /\ Cardinality({l \in Labels : blocksByName[k][l].block = e.block}) = 1
             /\ \A l \in Labels : blocksByName[k][l].block = e.block =>
                                      blocksByName[k][l].loc = e.loc
             /\ \A other \in forwardRef[k] : other.block = e.block => other = e
             /\ blocks[e.block].args = <<>>
             /\ blocks[e.block].region = 0
             /\ \A o \in DOMAIN ops : ops[o].block # e.block
             /\ \A r \in DOMAIN regions : e.block \notin Range(regions[r].blocks)
             /\ \A i \in DOMAIN stack :
                   stack[i].kind = "region" =>
                     e.block \notin {stack[i].block, stack[i].owningBlock,
                                      stack[i].inflightBlock}
             /\ \A u \in SuccessorUseLocs(e.block) : e.loc <= u)
  /\ [][status' # "destroyed" =>
          \A k \in DOMAIN forwardRef : \A e \in forwardRef[k] :
             k \notin DOMAIN forwardRef' \/ e \notin forwardRef'[k] =>
               \/ /\ NextBlock
                  /\ k = Len(forwardRef) /\ Len(forwardRef') = Len(forwardRef)
                  /\ forwardRef'[k] = forwardRef[k] \ {e}
                  /\ stack'[Len(stack')].block = e.block
                  /\ \E l \in Labels : /\ blocksByName[k][l].block = e.block
                                        /\ blocksByName'[k][l] = [block |-> e.block, loc |-> pos]
               \/ /\ EndRegion \/ EndOfFile
                  /\ status' = "failed"
                  /\ k = Len(forwardRef)
                  /\ forwardRef' = SubSeq(forwardRef, 1, k - 1)
                  /\ blocksByName' = blocksByName]_vars
  /\ [][status' # "destroyed" =>
          \A k \in DOMAIN forwardRef' : \A e \in forwardRef'[k] :
             k \notin DOMAIN forwardRef \/ e \notin forwardRef[k] =>
               /\ k = Len(forwardRef')
               /\ e.block \notin DOMAIN blocks
               /\ e.loc >= pos
               /\ \A l \in Labels :
                     blocksByName'[k][l].block = e.block /\ k \in DOMAIN blocksByName =>
                       blocksByName[k][l].block = 0]_vars

\* A label is forward-declared and referred to twice: the set has the
\* location of the first reference.
C39_Witness ==
  /\ status = "parsing"
  /\ \E e \in CurrentForwardRef :
       /\ e.loc \in SuccessorUseLocs(e.block)
       /\ \E u \in SuccessorUseLocs(e.block) : e.loc < u


============================================================================
